---- MODULE Spec2Model ----
(***************************************************************************)
(* Model of the completion ledger of CyberDropDownloader                   *)
(* (cyberdrop_dl/utils/database/tables/history_table.py): the media table, *)
(* its start-up migration and the operations the download pipeline calls   *)
(* on it.                                                                  *)
(*                                                                         *)
(* Strings are sequences of tokens.  The markers the code searches for     *)
(* ("keystamp", "e-hentai", "mediafire") are single tokens, every other    *)
(* token stands for one character.  A domain name is a one-token string.   *)
(***************************************************************************)
EXTENDS Bags, FiniteSets, Integers, Sequences, TLC

VARIABLES media,          \* the table `media` of the database
          media_copy,     \* the table `media_copy` of the database
          ignore_history, \* HistoryTable.ignore_history
          now,            \* the value CURRENT_TIMESTAMP evaluates to
          ret,            \* what the last ledger call returned or raised
          last,           \* the last ledger call: operation, arguments, what it found
          marked,         \* the key the last mark_complete returned for
          pc,             \* position of the running startup()
          media0,         \* the media table as the first startup() found it
          snapshot,       \* the tables as the first completed startup() left them
          runlog,         \* how each earlier run of startup() ended
          task,           \* per download task: position in the file-handling step
          transfers,      \* byte transfers completed, per ledger key
          violated,       \* a transfer was started for a key recorded complete
          site,           \* the pages the remote listing serves, in order
          config,         \* the settings and credentials the crawler reads
          cookies,        \* the session cookie of the shared client
          tokens,         \* acquisitions of the request limiter in its window
          scrape,         \* the scrape items in flight: where each one is
          fetched,        \* the requests issued, in order
          calls,          \* the ledger calls in flight: the statement each is at
          committed,      \* the media table as of the connection's last commit
          start,          \* the media table before the calls in flight began
          disk,           \* the files on disk: per path its bytes, or none
          hashes          \* the hash_file calls in flight: where each one is

ledgerVars  == <<ignore_history, now, ret, last, marked>>
startupVars == <<pc, media0, snapshot, runlog>>
dlVars      == <<task, transfers, violated>>
crawlVars   == <<site, config, cookies, tokens, scrape, fetched>>
connVars    == <<calls, committed, start>>
hashVars    == <<disk, hashes>>
vars == <<media, media_copy, ignore_history, now, ret, last, marked,
          pc, media0, snapshot, runlog, task, transfers, violated,
          site, config, cookies, tokens, scrape, fetched,
          calls, committed, start, disk, hashes>>

\* ------------------------------------------------------------------ bounds
MaxClock == 1
MaxLegacyRows == 3
MaxRuns == 2
MaxPages == 2

\* ------------------------------------------------------------- strings, URLs
NULL == "NULL"

\* `marker in s` for a token string s
In(marker, s) == \E i \in 1..Len(s) : s[i] = marker

\* s.split(sep)[0]
SplitHead(s, sep) ==
    IF In(sep, s)
    THEN LET i == CHOOSE k \in 1..Len(s) : s[k] = sep /\ \A j \in 1..(k-1) : s[j] # sep
         IN SubSeq(s, 1, i - 1)
    ELSE s

\* s[:-1]
DropLast(s) == IF Len(s) = 0 THEN <<>> ELSE SubSeq(s, 1, Len(s) - 1)

\* yarl.URL: url.path, url.name and str(url)
UrlPath(url) == url.path

UrlName(url) ==
    LET p == url.path
        i == CHOOSE k \in 0..Len(p) :
                 /\ (k = 0 \/ p[k] = "/")
                 /\ \A j \in (k+1)..Len(p) : p[j] # "/"
    IN SubSeq(p, i + 1, Len(p))

UrlStr(url) == <<"https://">> \o url.host \o url.path

\* a domain name as a string
DomainStr(domain) == <<domain>>

get_db_path(url, referer) ==
    LET url_path0 == UrlPath(url)
        url_path1 == IF referer # <<>> /\ In("e-hentai", referer)
                     THEN DropLast(SplitHead(url_path0, "keystamp"))
                     ELSE url_path0
    IN IF referer # <<>> /\ In("mediafire", referer)
       THEN UrlName(url)
       ELSE url_path1

ShareXDomains == {"img.kiwi", "jpg.church", "jpg.homes", "jpg.fish", "jpg.fishing",
                  "jpg.pet", "jpeg.pet", "jpg1.su", "jpg2.su", "jpg3.su"}

get_db_domain(domain) == IF domain \in ShareXDomains THEN "sharex" ELSE domain

\* ------------------------------------------------------------------ tables
BaseCols == <<"domain", "url_path", "referer", "download_path",
              "download_filename", "original_filename", "completed">>
OptionalCols == <<"album_id", "created_at", "completed_at", "file_size">>

\* a table that does not exist
NoTable == [exists |-> FALSE, pk |-> <<>>, cols |-> <<>>, rows |-> {}]

\* CREATE TABLE IF NOT EXISTS media (...), as the ledger's storage contract
\* describes it: eleven columns, unique on (domain, url_path)
create_history(t) ==
    IF t.exists THEN t
    ELSE [exists |-> TRUE, pk |-> <<"domain", "url_path">>,
          cols |-> BaseCols \o OptionalCols, rows |-> {}]

\* CREATE TABLE IF NOT EXISTS media_copy (...): the corrected table
create_fixed_history(t) ==
    IF t.exists THEN t
    ELSE [exists |-> TRUE, pk |-> <<"domain", "url_path">>,
          cols |-> BaseCols, rows |-> {}]

\* the primary-key value of a row of table t
KeyOf(t, r) == [i \in 1..Len(t.pk) |-> r[t.pk[i]]]

\* a set of rows breaks the uniqueness of t's primary key
PkConflict(t, rows) ==
    /\ t.pk # <<>>
    /\ \E r1, r2 \in rows : r1 # r2 /\ KeyOf(t, r1) = KeyOf(t, r2)

\* pragma table_info(t): per column its name and its position in the key
table_info(t) ==
    [i \in 1..Len(t.cols) |->
        [name |-> t.cols[i],
         pk   |-> IF \E k \in 1..Len(t.pk) : t.pk[k] = t.cols[i]
                  THEN CHOOSE k \in 1..Len(t.pk) : t.pk[k] = t.cols[i]
                  ELSE 0]]

\* SQL NULL in an integer column (timestamps, file_size); below every value
NULLINT == 0 - 1

\* the rows of t that cursor.fetchone() may return for a WHERE clause:
\* the empty set stands for None
Matching(t, domain, url_path) ==
    {r \in t.rows : r.domain = domain /\ r.url_path = url_path}

\* ------------------------------------------------ statements of the ledger
\* UPDATE media SET domain = ?, album_id = ?
\*   WHERE domain = 'no_crawler' and url_path = ? and referer = ?
UpdatePlaceholderRows(t, domain, album_id, url_path, referer) ==
    {IF r.domain = "no_crawler" /\ r.url_path = url_path /\ r.referer = referer
     THEN [r EXCEPT !.domain = domain, !.album_id = album_id]
     ELSE r : r \in t.rows}

\* the UPDATE above raises sqlite3.IntegrityError
UpdatePlaceholderRaises(t, domain, album_id, url_path, referer) ==
    LET rows == UpdatePlaceholderRows(t, domain, album_id, url_path, referer)
    IN PkConflict(t, rows) \/ Cardinality(rows) < Cardinality(t.rows)

\* a variant of the handler of the IntegrityError: no DELETE
KeepPlaceholderRows(t, url_path) == t.rows

\* DELETE FROM media WHERE domain = 'no_crawler' and url_path = ?
DeletePlaceholderRows(t, url_path) ==
    {r \in t.rows : ~(r.domain = "no_crawler" /\ r.url_path = url_path)}

\* the try/except of insert_incompleted
MigratePlaceholder(t, domain, album_id, url_path, referer) ==
    IF UpdatePlaceholderRaises(t, domain, album_id, url_path, referer)
    THEN [t EXCEPT !.rows = DeletePlaceholderRows(t, url_path)]
    ELSE [t EXCEPT !.rows = UpdatePlaceholderRows(t, domain, album_id, url_path, referer)]

\* a variant of the insert: INSERT OR REPLACE, which puts the new row in the
\* place of the record of its key
InsertOrReplace(t, domain, url_path, media_item, download_filename, ts) ==
    LET row == [domain            |-> domain,
                url_path          |-> url_path,
                referer           |-> UrlStr(media_item.referer),
                album_id          |-> media_item.album_id,
                download_path     |-> media_item.download_folder,
                download_filename |-> download_filename,
                original_filename |-> media_item.original_filename,
                completed         |-> 0,
                created_at        |-> ts,
                completed_at      |-> NULLINT,
                file_size         |-> NULLINT]
    IN [t EXCEPT !.rows =
          {r \in t.rows : t.pk = <<>> \/ KeyOf(t, r) # KeyOf(t, row)} \cup {row}]

\* a variant of the insert: INSERT ... ON CONFLICT DO UPDATE SET created_at,
\* which stamps the record of the key again
InsertOrRestamp(t, domain, url_path, media_item, download_filename, ts) ==
    LET row == [domain            |-> domain,
                url_path          |-> url_path,
                referer           |-> UrlStr(media_item.referer),
                album_id          |-> media_item.album_id,
                download_path     |-> media_item.download_folder,
                download_filename |-> download_filename,
                original_filename |-> media_item.original_filename,
                completed         |-> 0,
                created_at        |-> ts,
                completed_at      |-> NULLINT,
                file_size         |-> NULLINT]
    IN IF t.pk # <<>> /\ \E r \in t.rows : KeyOf(t, r) = KeyOf(t, row)
       THEN [t EXCEPT !.rows =
               {IF KeyOf(t, r) = KeyOf(t, row) THEN [r EXCEPT !.created_at = ts]
                ELSE r : r \in t.rows}]
       ELSE [t EXCEPT !.rows = t.rows \cup {row}]

\* INSERT OR IGNORE INTO media (...) VALUES (..., 0, CURRENT_TIMESTAMP)
InsertOrIgnore(t, domain, url_path, media_item, download_filename, ts) ==
    LET row == [domain            |-> domain,
                url_path          |-> url_path,
                referer           |-> UrlStr(media_item.referer),
                album_id          |-> media_item.album_id,
                download_path     |-> media_item.download_folder,
                download_filename |-> download_filename,
                original_filename |-> media_item.original_filename,
                completed         |-> 0,
                created_at        |-> ts,
                completed_at      |-> NULLINT,
                file_size         |-> NULLINT]
    IN IF t.pk # <<>> /\ \E r \in t.rows : KeyOf(t, r) = KeyOf(t, row)
       THEN t
       ELSE [t EXCEPT !.rows = t.rows \cup {row}]

\* a variant of the last statement of insert_incompleted: no update
KeepDownloadFilename(t, download_filename, domain, url_path) == t

\* UPDATE media SET download_filename = ? WHERE domain = ? and url_path = ?
UpdateDownloadFilename(t, download_filename, domain, url_path) ==
    [t EXCEPT !.rows =
        {IF r.domain = domain /\ r.url_path = url_path
         THEN [r EXCEPT !.download_filename = download_filename]
         ELSE r : r \in t.rows}]

\* media_item.download_filename if isinstance(.., str) else ""
DownloadFilename(media_item) ==
    IF media_item.download_filename # NULL THEN media_item.download_filename ELSE ""

\* the table insert_incompleted(domain, media_item) leaves
InsertIncompleted(t, domain0, media_item, ts) ==
    LET domain   == get_db_domain(domain0)
        url_path == get_db_path(media_item.url, UrlStr(media_item.referer))
        download_filename == DownloadFilename(media_item)
        t1 == MigratePlaceholder(t, domain, media_item.album_id, url_path,
                                 UrlStr(media_item.referer))
        t2 == InsertOrIgnore(t1, domain, url_path, media_item, download_filename, ts)
    IN UpdateDownloadFilename(t2, download_filename, domain, url_path)

\* a variant of mark_complete: an upsert, which creates the completed record
\* when the key has none
MarkCompleteUpsert(t, domain0, media_item, ts) ==
    LET domain   == get_db_domain(domain0)
        url_path == get_db_path(media_item.url, UrlStr(media_item.referer))
        row == [domain            |-> domain,
                url_path          |-> url_path,
                referer           |-> UrlStr(media_item.referer),
                album_id          |-> media_item.album_id,
                download_path     |-> media_item.download_folder,
                download_filename |-> DownloadFilename(media_item),
                original_filename |-> media_item.original_filename,
                completed         |-> 1,
                created_at        |-> ts,
                completed_at      |-> ts,
                file_size         |-> NULLINT]
    IN IF \E r \in t.rows : r.domain = domain /\ r.url_path = url_path
       THEN [t EXCEPT !.rows =
               {IF r.domain = domain /\ r.url_path = url_path
                THEN [r EXCEPT !.completed = 1, !.completed_at = ts]
                ELSE r : r \in t.rows}]
       ELSE [t EXCEPT !.rows = t.rows \cup {row}]

\* UPDATE media SET completed = 1, completed_at = CURRENT_TIMESTAMP
\*   WHERE domain = ? and url_path = ?
MarkComplete(t, domain0, media_item, ts) ==
    LET domain   == get_db_domain(domain0)
        url_path == get_db_path(media_item.url, UrlStr(media_item.referer))
    IN [t EXCEPT !.rows =
        {IF r.domain = domain /\ r.url_path = url_path
         THEN [r EXCEPT !.completed = 1, !.completed_at = ts]
         ELSE r : r \in t.rows}]

\* UPDATE media SET album_id = ? WHERE domain = ? and url_path = ?
SetAlbumId(t, domain0, media_item) ==
    LET domain   == get_db_domain(domain0)
        url_path == get_db_path(media_item.url, UrlStr(media_item.referer))
    IN [t EXCEPT !.rows =
        {IF r.domain = domain /\ r.url_path = url_path
         THEN [r EXCEPT !.album_id = media_item.album_id]
         ELSE r : r \in t.rows}]

\* UPDATE media SET file_size=? WHERE domain = ? and url_path = ?
AddFilesize(t, domain0, media_item) ==
    LET domain   == get_db_domain(domain0)
        url_path == get_db_path(media_item.url, UrlStr(media_item.referer))
    IN [t EXCEPT !.rows =
        {IF r.domain = domain /\ r.url_path = url_path
         THEN [r EXCEPT !.file_size = media_item.complete_file]
         ELSE r : r \in t.rows}]

\* a variant of the referer update: WHERE url_path = ? alone
UpdateRefererByPath(t, referer, domain, url_path) ==
    [t EXCEPT !.rows =
        {IF r.url_path = url_path THEN [r EXCEPT !.referer = referer] ELSE r
           : r \in t.rows}]

\* UPDATE media SET referer = ? WHERE domain = ? and url_path = ?
UpdateReferer(t, referer, domain, url_path) ==
    [t EXCEPT !.rows =
        {IF r.domain = domain /\ r.url_path = url_path
         THEN [r EXCEPT !.referer = referer]
         ELSE r : r \in t.rows}]

\* the (domain, url_path) key the writing operations address for an item
ItemKey(domain0, media_item) ==
    <<get_db_domain(domain0),
      get_db_path(media_item.url, UrlStr(media_item.referer))>>

\* the (domain, url_path) key check_complete looks up
LookupKey(domain0, url) ==
    <<get_db_domain(domain0),
      get_db_path(url, DomainStr(get_db_domain(domain0)))>>

\* ---- the inputs of the ledger specifications: two pages, a file URL, two
\* media items that resolve to the same url_path, the domains they are filed under
PageA == [host |-> <<"c">>, path |-> <<"/", "a">>]
PageB == [host |-> <<"c">>, path |-> <<"/", "b">>]
File1 == [host |-> <<"n">>, path |-> <<"/", "d", "/", "x">>]

Item1 == [url |-> File1, referer |-> PageA, album_id |-> "1",
          download_folder |-> "dir", download_filename |-> "x",
          original_filename |-> "x", complete_file |-> 7]
Item2 == [url |-> File1, referer |-> PageB, album_id |-> "2",
          download_folder |-> "dir", download_filename |-> NULL,
          original_filename |-> "y", complete_file |-> NULLINT]

LedgerItems    == {Item1, Item2}
LedgerDomains  == {"no_crawler", "jpg.church"}
LedgerUrls     == {File1}
LedgerReferers == {PageA, PageB}

\* ---- the calls: each action is the whole method, statements and commit
insert_incompleted(domain, media_item) ==
    /\ media' = InsertIncompleted(media, domain, media_item, now)
    /\ ret' = "None"
    /\ UNCHANGED <<media_copy, ignore_history, now>>

mark_complete(domain, media_item) ==
    /\ media' = MarkComplete(media, domain, media_item, now)
    /\ ret' = "None"
    /\ UNCHANGED <<media_copy, ignore_history, now>>

set_album_id(domain, media_item) ==
    /\ media' = SetAlbumId(media, domain, media_item)
    /\ ret' = "None"
    /\ UNCHANGED <<media_copy, ignore_history, now>>

\* pathlib.Path(media_item.complete_file).stat() raises when the file is gone
add_filesize(domain, media_item) ==
    LET gone == media_item.complete_file = NULLINT IN
    /\ media' = IF gone THEN media ELSE AddFilesize(media, domain, media_item)
    /\ ret' = IF gone THEN "FileNotFoundError" ELSE "None"
    /\ UNCHANGED <<media_copy, ignore_history, now>>

\* a variant of check_complete: the lookup without the test of ignore_history
check_complete_always(domain, url, referer) ==
    LET key == LookupKey(domain, url) IN
    \E sql_file_check \in
          IF Matching(media, key[1], key[2]) = {} THEN {{}}
          ELSE {{r} : r \in Matching(media, key[1], key[2])} :
       LET complete == \E r \in sql_file_check : r.completed # 0
           drift    == \E r \in sql_file_check : UrlStr(referer) # r.referer IN
       /\ media' = IF complete /\ drift
                   THEN UpdateReferer(media, UrlStr(referer), key[1], key[2])
                   ELSE media
       /\ ret' = IF complete THEN "True" ELSE "False"
       /\ UNCHANGED <<media_copy, ignore_history, now>>

check_complete(domain, url, referer) ==
    LET key == LookupKey(domain, url) IN
    IF ignore_history
    THEN /\ ret' = "False"
         /\ UNCHANGED <<media, media_copy, ignore_history, now>>
    ELSE \E sql_file_check \in
              IF Matching(media, key[1], key[2]) = {} THEN {{}}
              ELSE {{r} : r \in Matching(media, key[1], key[2])} :
         LET complete == \E r \in sql_file_check : r.completed # 0
             drift    == \E r \in sql_file_check : UrlStr(referer) # r.referer IN
         /\ media' = IF complete /\ drift
                     THEN UpdateReferer(media, UrlStr(referer), key[1], key[2])
                     ELSE media
         /\ ret' = IF complete THEN "True" ELSE "False"
         /\ UNCHANGED <<media_copy, ignore_history, now>>

\* time passes: CURRENT_TIMESTAMP grows
Tick ==
    /\ now < MaxClock
    /\ now' = now + 1
    /\ UNCHANGED <<media, media_copy, ignore_history, ret>>

\* ---- the record of the last call, kept for the properties
NoCall == [op |-> "none", domain |-> "", arg |-> <<>>, key |-> <<>>,
           own |-> "absent", ref |-> "none", again |-> FALSE]
NoMark == [key |-> <<>>, found |-> FALSE]

\* what the ledger holds under a key: nothing, an incomplete or a complete record
OwnCase(t, key) ==
    IF Matching(t, key[1], key[2]) = {} THEN "absent"
    ELSE IF \E r \in Matching(t, key[1], key[2]) : r.completed # 0 THEN "complete"
    ELSE "incomplete"

\* how the referer stored in a set of rows compares to a call's referer
RefCase(rows, referer) ==
    IF rows = {} THEN "none"
    ELSE IF \E r \in rows : r.referer = referer THEN "same_referer"
    ELSE "other_referer"

\* the call repeats the one before it: same operation, same arguments
Again(op, domain, arg) == last.op = op /\ last.domain = domain /\ last.arg = arg

\* a writing call: own is the state of the call's key, ref the referer of the
\* placeholder record of the call's url_path, both before the call
Wrote(op, domain, media_item) ==
    LET key == ItemKey(domain, media_item) IN
    last' = [op |-> op, domain |-> domain, arg |-> media_item, key |-> key,
             own |-> OwnCase(media, key),
             ref |-> RefCase(Matching(media, "no_crawler", key[2]),
                             UrlStr(media_item.referer)),
             again |-> Again(op, domain, media_item)]

\* a check_complete call: own is the state of the looked-up key, ref the
\* stored referer of its record, both before the call
Checked(domain, url, referer) ==
    LET key == LookupKey(domain, url) IN
    last' = [op |-> "check_complete", domain |-> domain,
             arg |-> [url |-> url, referer |-> referer], key |-> key,
             own |-> OwnCase(media, key),
             ref |-> RefCase(Matching(media, key[1], key[2]), UrlStr(referer)),
             again |-> Again("check_complete", domain, [url |-> url, referer |-> referer])]

\* the run of calls on one key that follows a mark_complete: found tells
\* whether that mark_complete met a record; a call on another key ends the run
Noted(op, key) ==
    /\ last' = [NoCall EXCEPT !.op = op, !.key = key]
    /\ marked' = IF op = "mark_complete"
                 THEN [key |-> key, found |-> Matching(media, key[1], key[2]) # {}]
                 ELSE IF marked.key # key THEN NoMark ELSE marked

LedgerInit ==
    /\ media = create_history(NoTable)
    /\ media_copy = NoTable
    /\ ignore_history = FALSE
    /\ now = 0
    /\ ret = "None"
    /\ last = NoCall
    /\ marked = NoMark

StartupIdle == /\ pc = "off" /\ media0 = NoTable /\ snapshot = <<>> /\ runlog = <<>>
DownloadIdle == /\ task = <<>> /\ transfers = <<>> /\ violated = FALSE
CrawlIdle ==
    /\ site = <<>> /\ config = <<>> /\ cookies = "" /\ tokens = 0
    /\ scrape = <<>> /\ fetched = <<>>
ConnIdle == /\ calls = <<>> /\ committed = NoTable /\ start = NoTable
HashIdle == /\ disk = <<>> /\ hashes = <<>>

Init == LedgerInit /\ StartupIdle /\ DownloadIdle /\ CrawlIdle /\ ConnIdle /\ HashIdle

\* the ledger under any sequence of calls, within one tick of the clock
Next ==
    \/ \E d \in LedgerDomains, m \in LedgerItems :
          /\ insert_incompleted(d, m) /\ Wrote("insert_incompleted", d, m)
          /\ UNCHANGED <<marked, startupVars, dlVars, crawlVars, connVars, hashVars>>
    \/ \E d \in LedgerDomains, m \in LedgerItems :
          /\ mark_complete(d, m) /\ Wrote("mark_complete", d, m)
          /\ UNCHANGED <<marked, startupVars, dlVars, crawlVars, connVars, hashVars>>
    \/ \E d \in LedgerDomains, m \in LedgerItems :
          /\ set_album_id(d, m) /\ Wrote("set_album_id", d, m)
          /\ UNCHANGED <<marked, startupVars, dlVars, crawlVars, connVars, hashVars>>
    \/ \E d \in LedgerDomains, m \in LedgerItems :
          /\ add_filesize(d, m) /\ Wrote("add_filesize", d, m)
          /\ UNCHANGED <<marked, startupVars, dlVars, crawlVars, connVars, hashVars>>
    \/ \E d \in LedgerDomains, u \in LedgerUrls, r \in LedgerReferers :
          /\ check_complete(d, u, r) /\ Checked(d, u, r)
          /\ UNCHANGED <<marked, startupVars, dlVars, crawlVars, connVars, hashVars>>

Spec == Init /\ [][Next]_vars

\* ------------------------------------------------------------- startup()
\* A table without a primary key holds a bag of rows, a keyed table a set.

\* the (domain, url_path, original_filename) group of a row
GroupOf(r) == <<r.domain, r.url_path, r.original_filename>>

\* a variant of the SELECT: GROUP BY domain, url_path
GroupedByKey(t) ==
    LET all  == BagToSet(t.rows)
        keys == {<<r.domain, r.url_path>> : r \in all}
    IN {S \in SUBSET all :
          \A k \in keys : Cardinality({r \in S : <<r.domain, r.url_path>> = k}) = 1}

\* SELECT * FROM media GROUP BY domain, url_path, original_filename:
\* the possible results, one arbitrary row of each group
GroupedRows(t) ==
    LET all    == BagToSet(t.rows)
        groups == {GroupOf(r) : r \in all}
    IN {S \in SUBSET all :
          \A g \in groups : Cardinality({r \in S : GroupOf(r) = g}) = 1}

\* INSERT INTO media_copy (<the seven base columns>) SELECT * ...: the values
\* of a selected row go to the named columns by position
CopiedRow(t, r) ==
    [col \in {"domain", "url_path", "referer", "album_id", "download_path",
              "download_filename", "original_filename", "completed",
              "created_at", "completed_at", "file_size"} |->
        IF \E i \in 1..Len(BaseCols) : BaseCols[i] = col
        THEN r[t.cols[CHOOSE i \in 1..Len(BaseCols) : BaseCols[i] = col]]
        ELSE IF col = "album_id" THEN NULL ELSE NULLINT]

\* the INSERT ... SELECT of fix_primary_keys raises
CopyRaises(t, copy, selected) ==
    LET new == {CopiedRow(t, r) : r \in selected}
    IN \/ Len(t.cols) # Len(BaseCols)
       \/ new \cap copy.rows # {}
       \/ PkConflict(copy, copy.rows \cup new)

\* ALTER TABLE media ADD COLUMN col
AlterAddColumn(t, col) == [t EXCEPT !.cols = Append(t.cols, col)]

\* a variant of the column step: ALTER TABLE without the test
AddColumnAlways(t, col) == AlterAddColumn(t, col)

\* if col not in current_cols: ALTER TABLE media ADD COLUMN col
AddColumnIfMissing(t, col) ==
    IF \E i \in 1..Len(table_info(t)) : table_info(t)[i].name = col
    THEN t
    ELSE AlterAddColumn(t, col)

\* a column name occurs twice: the ALTER TABLE raised "duplicate column name"
DuplicateColumn(t) ==
    \E i, j \in 1..Len(t.cols) : i # j /\ t.cols[i] = t.cols[j]

\* a variant of the SELECT: WHERE domain = 'bunkr' alone
BunkrEntriesAll(t) == {r \in t.rows : r.domain = "bunkr"}

\* SELECT * from media WHERE domain = 'bunkr' and completed = 1
BunkrEntries(t) == {r \in t.rows : r.domain = "bunkr" /\ r.completed = 1}

\* INSERT or REPLACE INTO media VALUES (...) for every entry, its domain
\* set to 'bunkrr'
ReplaceBunkrEntries(t) ==
    LET new == {[r EXCEPT !.domain = "bunkrr"] : r \in BunkrEntries(t)}
    IN [t EXCEPT !.rows =
          {r \in t.rows : \A n \in new : KeyOf(t, n) # KeyOf(t, r)} \cup new]

\* DELETE FROM media WHERE domain = 'bunkr'
DeleteBunkr(t) == [t EXCEPT !.rows = {r \in t.rows : r.domain # "bunkr"}]

AddPcs == <<"add_album_id", "add_created_at", "add_completed_at", "add_file_size",
            "bunkr_replace">>

\* a run of startup() begins
Begin ==
    /\ pc \in {"off", "done", "failed"}
    /\ Len(runlog) < MaxRuns
    /\ pc' = "create_history"
    /\ UNCHANGED <<media, media_copy, media0, snapshot, runlog>>

\* execute(create_history); commit
startup ==
    /\ pc = "create_history"
    /\ media' = create_history(media)
    /\ pc' = "fix_primary_keys"
    /\ UNCHANGED <<media_copy, media0, snapshot, runlog>>

\* fix_primary_keys: the test of the first column's key position and, for a
\* table without key, execute(create_fixed_history); commit
fix_primary_keys ==
    /\ pc = "fix_primary_keys"
    /\ IF table_info(media)[1].pk = 0
       THEN /\ media_copy' = create_fixed_history(media_copy)
            /\ pc' = "copy_rows"
       ELSE /\ media_copy' = media_copy
            /\ pc' = "add_album_id"
    /\ UNCHANGED <<media, media0, snapshot, runlog>>

\* fix_primary_keys: INSERT INTO media_copy ... SELECT ... GROUP BY; commit
fix_primary_keys_copy ==
    /\ pc = "copy_rows"
    /\ \E selected \in GroupedRows(media) :
          IF CopyRaises(media, media_copy, selected)
          THEN /\ pc' = "failed"
               /\ runlog' = Append(runlog, "failed")
               /\ media_copy' = media_copy
          ELSE /\ pc' = "drop_media"
               /\ runlog' = runlog
               /\ media_copy' = [media_copy EXCEPT !.rows =
                      @ \cup {CopiedRow(media, r) : r \in selected}]
    /\ UNCHANGED <<media, media0, snapshot>>

\* fix_primary_keys: DROP TABLE media; commit
fix_primary_keys_drop ==
    /\ pc = "drop_media"
    /\ media' = NoTable
    /\ pc' = "rename_copy"
    /\ UNCHANGED <<media_copy, media0, snapshot, runlog>>

\* fix_primary_keys: ALTER TABLE media_copy RENAME TO media; commit
fix_primary_keys_rename ==
    /\ pc = "rename_copy"
    /\ media' = media_copy
    /\ media_copy' = NoTable
    /\ pc' = "add_album_id"
    /\ UNCHANGED <<media0, snapshot, runlog>>

\* add_columns_media: the i-th of its four tests and ALTER TABLEs, with its
\* commit (a column added by an earlier test has another name, so the test
\* on the table as it is equals the test on current_cols)
add_columns_media(i) ==
    /\ pc = AddPcs[i]
    /\ IF DuplicateColumn(AddColumnIfMissing(media, OptionalCols[i]))
       THEN /\ pc' = "failed"
            /\ runlog' = Append(runlog, "failed")
            /\ media' = media
       ELSE /\ pc' = AddPcs[i + 1]
            /\ runlog' = runlog
            /\ media' = AddColumnIfMissing(media, OptionalCols[i])
    /\ UNCHANGED <<media_copy, media0, snapshot>>

\* fix_bunkr_v4_entries: the INSERT or REPLACE of every entry; commit
fix_bunkr_v4_entries ==
    /\ pc = "bunkr_replace"
    /\ media' = ReplaceBunkrEntries(media)
    /\ pc' = "bunkr_delete"
    /\ UNCHANGED <<media_copy, media0, snapshot, runlog>>

\* fix_bunkr_v4_entries: DELETE FROM media WHERE domain = 'bunkr'; commit.
\* startup() returns.
fix_bunkr_v4_delete ==
    /\ pc = "bunkr_delete"
    /\ media' = DeleteBunkr(media)
    /\ pc' = "done"
    /\ runlog' = Append(runlog, "done")
    /\ snapshot' = IF snapshot = <<>> THEN <<media', media_copy>> ELSE snapshot
    /\ UNCHANGED <<media_copy, media0>>

\* the statements of the rebuild that follow the creation of media_copy
RebuildPcs == {"copy_rows", "drop_media", "rename_copy"}

\* the process dies between two statements of startup(): what is committed
\* stays, the run is over; runlog notes the statement of the rebuild that was
\* not reached, or "crash" outside the rebuild
Crash ==
    /\ pc \notin {"off", "done", "failed"}
    /\ runlog' = Append(runlog, IF pc \in RebuildPcs THEN pc ELSE "crash")
    /\ pc' = "off"
    /\ UNCHANGED <<media, media_copy, media0, snapshot>>

\* ---- the databases a first startup() may find
StartDomains == {"bunkr", "bunkrr", "coomer"}

StartRows ==
    {[domain            |-> d,
      url_path          |-> UrlPath(File1),
      referer           |-> UrlStr(PageA),
      album_id          |-> NULL,
      download_path     |-> "dir",
      download_filename |-> "x",
      original_filename |-> o,
      completed         |-> c,
      created_at        |-> NULLINT,
      completed_at      |-> NULLINT,
      file_size         |-> NULLINT] : d \in StartDomains, o \in {"x", "y"}, c \in {0, 1}}

\* the bag of the rows listed in a sequence
BagOfSeq(q) ==
    [r \in {q[i] : i \in 1..Len(q)} |-> Cardinality({i \in 1..Len(q) : q[i] = r})]

\* a table of an old version: the seven base columns, no primary key, any rows
LegacyTables ==
    {[exists |-> TRUE, pk |-> <<>>, cols |-> BaseCols, rows |-> BagOfSeq(q)] :
        q \in UNION {[1..n -> StartRows] : n \in 0..MaxLegacyRows}}

\* the optional columns a keyed table of an earlier version may have
ColumnSets == {<<>>, <<"album_id">>, <<"created_at", "completed_at">>,
               <<"album_id", "created_at", "completed_at">>, OptionalCols}

\* a keyed table of an earlier version: some optional columns, rows with
\* distinct keys
KeyedTables ==
    {[exists |-> TRUE, pk |-> <<"domain", "url_path">>, cols |-> BaseCols \o oc,
      rows |-> rows] :
        oc \in ColumnSets,
        rows \in {S \in SUBSET StartRows :
                     /\ Cardinality(S) <= MaxLegacyRows
                     /\ \A r1, r2 \in S : r1 # r2 => r1.domain # r2.domain}}

InitStartup ==
    /\ media \in {NoTable} \cup LegacyTables \cup KeyedTables
    /\ media_copy = NoTable
    /\ media0 = media
    /\ pc = "off" /\ snapshot = <<>> /\ runlog = <<>>
    /\ ignore_history = FALSE /\ now = 0 /\ ret = "None"
    /\ last = NoCall /\ marked = NoMark
    /\ DownloadIdle
    /\ CrawlIdle /\ ConnIdle /\ HashIdle

NextStartup ==
    \/ Begin /\ UNCHANGED <<ledgerVars, dlVars, crawlVars, connVars, hashVars>>
    \/ startup /\ UNCHANGED <<ledgerVars, dlVars, crawlVars, connVars, hashVars>>
    \/ fix_primary_keys /\ UNCHANGED <<ledgerVars, dlVars, crawlVars, connVars, hashVars>>
    \/ fix_primary_keys_copy /\ UNCHANGED <<ledgerVars, dlVars, crawlVars, connVars, hashVars>>
    \/ fix_primary_keys_drop /\ UNCHANGED <<ledgerVars, dlVars, crawlVars, connVars, hashVars>>
    \/ fix_primary_keys_rename /\ UNCHANGED <<ledgerVars, dlVars, crawlVars, connVars, hashVars>>
    \/ \E i \in 1..Len(OptionalCols) :
          add_columns_media(i) /\ UNCHANGED <<ledgerVars, dlVars, crawlVars, connVars, hashVars>>
    \/ fix_bunkr_v4_entries /\ UNCHANGED <<ledgerVars, dlVars, crawlVars, connVars, hashVars>>
    \/ fix_bunkr_v4_delete /\ UNCHANGED <<ledgerVars, dlVars, crawlVars, connVars, hashVars>>
    \/ Crash /\ UNCHANGED <<ledgerVars, dlVars, crawlVars, connVars, hashVars>>

SpecStartup == InitStartup /\ [][NextStartup]_vars

\* the ledger under inserts and completions while the clock advances
NextInsert ==
    \/ \E d \in LedgerDomains, m \in LedgerItems :
          /\ insert_incompleted(d, m) /\ Wrote("insert_incompleted", d, m)
          /\ UNCHANGED <<marked, startupVars, dlVars, crawlVars, connVars, hashVars>>
    \/ \E d \in LedgerDomains, m \in LedgerItems :
          /\ mark_complete(d, m) /\ Wrote("mark_complete", d, m)
          /\ UNCHANGED <<marked, startupVars, dlVars, crawlVars, connVars, hashVars>>
    \/ Tick /\ UNCHANGED <<last, marked, startupVars, dlVars, crawlVars, connVars, hashVars>>

SpecInsert == Init /\ [][NextInsert]_vars

\* the ledger under any sequence of calls, following the calls on a marked key
NextMonotone ==
    \/ \E d \in LedgerDomains, m \in LedgerItems :
          /\ insert_incompleted(d, m) /\ Noted("insert_incompleted", ItemKey(d, m))
          /\ UNCHANGED <<startupVars, dlVars, crawlVars, connVars, hashVars>>
    \/ \E d \in LedgerDomains, m \in LedgerItems :
          /\ mark_complete(d, m) /\ Noted("mark_complete", ItemKey(d, m))
          /\ UNCHANGED <<startupVars, dlVars, crawlVars, connVars, hashVars>>
    \/ \E d \in LedgerDomains, m \in LedgerItems :
          /\ set_album_id(d, m) /\ Noted("set_album_id", ItemKey(d, m))
          /\ UNCHANGED <<startupVars, dlVars, crawlVars, connVars, hashVars>>
    \/ \E d \in LedgerDomains, m \in LedgerItems :
          /\ add_filesize(d, m) /\ Noted("add_filesize", ItemKey(d, m))
          /\ UNCHANGED <<startupVars, dlVars, crawlVars, connVars, hashVars>>
    \/ \E d \in LedgerDomains, u \in LedgerUrls, r \in LedgerReferers :
          /\ check_complete(d, u, r) /\ Noted("check_complete", LookupKey(d, u))
          /\ UNCHANGED <<startupVars, dlVars, crawlVars, connVars, hashVars>>

SpecMonotone == Init /\ [][NextMonotone]_vars

\* ------------------------------------------------------ the file-handling step
\* Two scrape items of one run resolve to the same ledger key.  Each is
\* handled by the step the design describes: check_complete, then
\* insert_incompleted, the byte transfer, mark_complete; a task may be
\* suspended between any two of them.
Tasks == {"t1", "t2"}
TaskDomain == "jpg.church"
TaskItem(t) == IF t = "t1" THEN Item1 ELSE Item2
TaskKey(t) == ItemKey(TaskDomain, TaskItem(t))

\* the ledger records the key as complete
RecordedComplete(t, key) ==
    \E r \in Matching(t, key[1], key[2]) : r.completed # 0

handle_file_check(t) ==
    /\ task[t] = "check"
    /\ check_complete(TaskDomain, TaskItem(t).url, TaskItem(t).referer)
    /\ task' = [task EXCEPT ![t] = IF ret' = "True" THEN "skipped" ELSE "insert"]
    /\ UNCHANGED <<last, marked, transfers, violated, runlog>>

handle_file_insert(t) ==
    /\ task[t] = "insert"
    /\ insert_incompleted(TaskDomain, TaskItem(t))
    /\ task' = [task EXCEPT ![t] = "start"]
    /\ UNCHANGED <<last, marked, transfers, violated, runlog>>

\* the byte transfer starts
transfer_start(t) ==
    /\ task[t] = "start"
    /\ task' = [task EXCEPT ![t] = "transfer"]
    /\ violated' = (violated \/ RecordedComplete(media, TaskKey(t)))
    /\ UNCHANGED <<media, media_copy, ledgerVars, transfers, runlog>>

\* the byte transfer is complete
transfer_finish(t) ==
    /\ task[t] = "transfer"
    /\ task' = [task EXCEPT ![t] = "mark"]
    /\ transfers' = [transfers EXCEPT ![TaskKey(t)] = @ + 1]
    /\ UNCHANGED <<media, media_copy, ledgerVars, violated, runlog>>

handle_file_mark(t) ==
    /\ task[t] = "mark"
    /\ mark_complete(TaskDomain, TaskItem(t))
    /\ task' = [task EXCEPT ![t] = "done"]
    /\ UNCHANGED <<last, marked, transfers, violated, runlog>>

\* the run ends, by a crash or at its end; the next run finds the same items
NextRun ==
    /\ Len(runlog) < MaxRuns
    /\ runlog' = Append(runlog, IF \A t \in Tasks : task[t] \in {"done", "skipped"}
                                THEN "done" ELSE "crash")
    /\ task' = [t \in Tasks |-> "check"]
    /\ UNCHANGED <<media, media_copy, ledgerVars, transfers, violated>>

InitDownload ==
    /\ LedgerInit
    /\ pc = "off" /\ media0 = NoTable /\ snapshot = <<>> /\ runlog = <<>>
    /\ task = [t \in Tasks |-> "check"]
    /\ transfers = [k \in {TaskKey(t) : t \in Tasks} |-> 0]
    /\ violated = FALSE
    /\ CrawlIdle /\ ConnIdle /\ HashIdle

NextDownload ==
    \/ \E t \in Tasks : handle_file_check(t) /\ UNCHANGED <<pc, media0, snapshot, crawlVars, connVars, hashVars>>
    \/ \E t \in Tasks : handle_file_insert(t) /\ UNCHANGED <<pc, media0, snapshot, crawlVars, connVars, hashVars>>
    \/ \E t \in Tasks : transfer_start(t) /\ UNCHANGED <<pc, media0, snapshot, crawlVars, connVars, hashVars>>
    \/ \E t \in Tasks : transfer_finish(t) /\ UNCHANGED <<pc, media0, snapshot, crawlVars, connVars, hashVars>>
    \/ \E t \in Tasks : handle_file_mark(t) /\ UNCHANGED <<pc, media0, snapshot, crawlVars, connVars, hashVars>>
    \/ NextRun /\ UNCHANGED <<pc, media0, snapshot, crawlVars, connVars, hashVars>>

SpecDownload == InitDownload /\ [][NextDownload]_vars

C2_Idempotent ==
    [][\A d \in LedgerDomains, m \in LedgerItems :
        (Again("insert_incompleted", d, m) /\ insert_incompleted(d, m))
           => /\ media' = media
              /\ Cardinality(Matching(media', ItemKey(d, m)[1], ItemKey(d, m)[2])) = 1
      ]_vars

\* C2 witness: the second of two identical inserts has run, at a later time
\* than the record was created
C2_Witness ==
    /\ last.op = "insert_incompleted" /\ last.again
    /\ \E r \in Matching(media, last.key[1], last.key[2]) : r.created_at < now

\* C7: check_complete on a completed record whose stored referer differs from
\* the referer passed returns true, stores the new referer, and changes no
\* other field of that record and no other record
C7_RefererDrift ==
    [][\A d \in LedgerDomains, u \in LedgerUrls, r \in LedgerReferers :
        LET key == LookupKey(d, u)
            old == Matching(media, key[1], key[2])
        IN (/\ check_complete(d, u, r)
            /\ ~ignore_history
            /\ \E row \in old : row.completed # 0 /\ row.referer # UrlStr(r))
           => /\ ret' = "True"
              /\ Matching(media', key[1], key[2]) =
                    {[row EXCEPT !.referer = UrlStr(r)] : row \in old}
              /\ media'.rows \ Matching(media', key[1], key[2]) = media.rows \ old
              /\ [media' EXCEPT !.rows = {}] = [media EXCEPT !.rows = {}]
      ]_vars

\* C7 witness: check_complete met a completed record with another referer,
\* next to a record of another key, and returned true
C7_Witness ==
    /\ last.op = "check_complete" /\ last.own = "complete"
    /\ last.ref = "other_referer" /\ ret = "True"
    /\ \E row \in Matching(media, last.key[1], last.key[2]) :
          row.referer = UrlStr(last.arg.referer)
    /\ \E row \in media.rows : <<row.domain, row.url_path>> # last.key

Across(t, domain, url_path) ==
    Matching(t, "no_crawler", url_path) \cup Matching(t, domain, url_path)

\* C9 as stated: after insert_incompleted with a concrete domain for a
\* url_path that had a placeholder record, whatever its referer, one record
\* is left across the placeholder and the concrete domain, under the latter
C9_AsStated ==
    (/\ last.op = "insert_incompleted" /\ last.key[1] # "no_crawler"
     /\ last.ref # "none")
        => /\ Cardinality(Across(media, last.key[1], last.key[2])) = 1
           /\ Matching(media, "no_crawler", last.key[2]) = {}

\* C9, amended: after insert_incompleted with a concrete domain for a
\* url_path that had a placeholder record whose stored referer equals the
\* item's referer, one record is left across the placeholder and the concrete
\* domain, under the latter
C9_PlaceholderMigrated ==
    (/\ last.op = "insert_incompleted" /\ last.key[1] # "no_crawler"
     /\ last.ref = "same_referer")
        => /\ Cardinality(Across(media, last.key[1], last.key[2])) = 1
           /\ Matching(media, "no_crawler", last.key[2]) = {}

\* C9 witness: the placeholder had the item's referer and the concrete domain
\* had a record of its own already
C9_Witness ==
    /\ last.op = "insert_incompleted" /\ last.key[1] # "no_crawler"
    /\ last.ref = "same_referer" /\ last.own # "absent"
    /\ Cardinality(Across(media, last.key[1], last.key[2])) = 1

\* C10 as stated: after insert_incompleted on a key with an incomplete record
\* the key has one record, with the referer and album_id of the new item
C10_AsStated ==
    (last.op = "insert_incompleted" /\ last.own = "incomplete")
        => /\ Cardinality(Matching(media, last.key[1], last.key[2])) = 1
           /\ \A row \in Matching(media, last.key[1], last.key[2]) :
                 /\ row.referer = UrlStr(last.arg.referer)
                 /\ row.album_id = last.arg.album_id

\* C10, amended: after insert_incompleted on a key with an incomplete record
\* the key has one record: the stored one with the download_filename of the
\* new item; its referer is the stored one, and so is its album_id unless the
\* record is a placeholder-domain record with the item's referer, which takes
\* the item's album_id
C10_Reinsert ==
    [][\A d \in LedgerDomains, m \in LedgerItems :
        LET key == ItemKey(d, m)
            old == Matching(media, key[1], key[2])
        IN (insert_incompleted(d, m) /\ OwnCase(media, key) = "incomplete")
           => /\ Cardinality(Matching(media', key[1], key[2])) = 1
              /\ Matching(media', key[1], key[2]) =
                   {[row EXCEPT
                       !.download_filename = DownloadFilename(m),
                       !.album_id = IF key[1] = "no_crawler"
                                       /\ row.referer = UrlStr(m.referer)
                                    THEN m.album_id ELSE @] : row \in old}
      ]_vars

\* C10 witness: an incomplete record was re-inserted with another referer,
\* album and file name, and kept its referer and album
C10_Witness ==
    /\ last.op = "insert_incompleted" /\ last.own = "incomplete"
    /\ \E row \in Matching(media, last.key[1], last.key[2]) :
          /\ row.referer # UrlStr(last.arg.referer)
          /\ row.album_id # last.arg.album_id
          /\ row.download_filename = DownloadFilename(last.arg)
          /\ row.original_filename # last.arg.original_filename

\* C11: no call changes the completed flag of a stored record from 1 to 0 or
\* discards a completed record: a record that is completed before a call is
\* there, completed, after it, under its own domain or, if it was a
\* placeholder record, under the concrete domain it was moved to
C11_CompletedMonotone ==
    [][\A r \in media.rows :
          r.completed # 0 =>
             \E r2 \in media'.rows :
                /\ r2.completed # 0
                /\ r2.url_path = r.url_path
                /\ (r2.domain = r.domain \/ r.domain = "no_crawler")
      ]_vars

\* C3: whatever the interleaving of the tasks and however the runs end, at
\* most one byte transfer is completed per key, and no transfer starts for a
\* key the ledger records as complete
C3_DownloadedOnce ==
    /\ ~violated
    /\ \A k \in DOMAIN transfers : transfers[k] <= 1

\* ---- startup(): C4, C5, C6
\* the first column of media is part of its primary key
KeyedShape(t) == t.exists /\ table_info(t)[1].pk # 0

\* the groups of the rows of the table the first startup() found
Groups0 == {GroupOf(r) : r \in BagToSet(media0.rows)}

\* the first startup() found a table of the legacy shape
Legacy0 == media0.exists /\ media0.pk = <<>>

\* the first startup() ran from a legacy table to its end
Migrated == pc = "done" /\ runlog = <<"done">> /\ Legacy0

OldNames == {"bunkr", "bunkrr"}

C5_CrashConvergence ==
    (Legacy0 /\ Len(runlog) >= 1 /\ runlog[1] \in RebuildPcs)
        => /\ (Len(runlog) = 2 => runlog[2] # "failed")
           /\ (pc = "done" =>
                 /\ KeyedShape(media)
                 /\ ~media_copy.exists
                 /\ \A g \in Groups0 :
                       g[1] \notin OldNames
                          => Cardinality({r \in media.rows : GroupOf(r) = g}) = 1)

\* the set of the names in a column list
ColSet(cols) == {cols[i] : i \in 1..Len(cols)}

\* C6: once a startup() has run to its end, every later startup() runs
\* without error and leaves both tables, schema and rows, as the first left
\* them at each of its statements; a startup() that ran to its end has added
\* exactly the optional columns that were absent and removed none
C6_StartupIdempotent ==
    /\ snapshot # <<>> =>
          /\ <<media, media_copy>> = snapshot
          /\ pc # "failed"
          /\ \A i \in 1..Len(runlog) : runlog[i] = "done" =>
                \A j \in i..Len(runlog) : runlog[j] # "failed"
    /\ (pc = "done" /\ media0.exists) =>
          /\ SubSeq(media.cols, 1, Len(media0.cols)) = media0.cols
          /\ ColSet(media.cols) = ColSet(BaseCols) \cup ColSet(OptionalCols)
          /\ ~DuplicateColumn(media)

\* C6 witness: a second startup() ran to its end on a table whose first
\* startup() added columns and rewrote rows
C6_Witness ==
    /\ pc = "done" /\ runlog = <<"done", "done">>
    /\ Len(media0.cols) < Len(media.cols)
    /\ media0.pk # <<>>
    /\ media.rows # {}
    /\ media.rows # media0.rows

\* ---- fix_bunkr_v4_entries: C12
\* one startup() ran to its end on a keyed table: its rows reached the
\* rename pass as the table held them
RenamePassRan == pc = "done" /\ runlog = <<"done">> /\ media0.pk # <<>>

\* the row as the rename pass files it
Renamed(r) == [r EXCEPT !.domain = "bunkrr"]

\* C12 as stated: after the pass every row that was under 'bunkr', completed
\* or not, is under 'bunkrr' with its other fields, and none is under 'bunkr'
C12_AsStated ==
    RenamePassRan =>
        /\ \A r0 \in media0.rows : r0.domain = "bunkr" => Renamed(r0) \in media.rows
        /\ \A r \in media.rows : r.domain # "bunkr"

\* C12, amended: after the pass every completed row that was under 'bunkr' is
\* under 'bunkrr' with its other fields, in the place of the 'bunkrr' row of
\* its url_path if there was one; the rows under 'bunkr' that were not
\* completed are gone; no row is under 'bunkr'; every other row is as it was;
\* and the pass run again on the result changes nothing
C12_BunkrFix ==
    /\ RenamePassRan =>
          LET moved == {Renamed(r0) : r0 \in {r \in media0.rows :
                                        r.domain = "bunkr" /\ r.completed = 1}}
              kept  == {r0 \in media0.rows :
                          /\ r0.domain # "bunkr"
                          /\ \A n \in moved : <<n.domain, n.url_path>> #
                                              <<r0.domain, r0.url_path>>}
          IN /\ media.rows = moved \cup kept
             /\ \A r \in media.rows : r.domain # "bunkr"
    /\ pc = "done" => DeleteBunkr(ReplaceBunkrEntries(media)) = media

\* C12 witness: the pass ran on a table with a completed 'bunkr' row, a
\* different 'bunkrr' row of the same url_path and a third row, and left the
\* renamed row and the third
C12_Witness ==
    /\ RenamePassRan
    /\ \E r0, r1, r2 \in media0.rows :
          /\ r0.domain = "bunkr" /\ r0.completed = 1
          /\ r1.domain = "bunkrr" /\ r1.url_path = r0.url_path
          /\ r1.original_filename # r0.original_filename
          /\ r2.domain = "coomer"
          /\ media.rows = {Renamed(r0), r2}

\* ------------------------------------------------------------ the crawler
\* cyberdrop_dl/scraper/crawlers/coomer_crawler.py.  A scrape item is a
\* task of the run's task group; tasks are scheduled cooperatively, so an
\* action runs one task from one suspension point (limiter, request) to the
\* next.  scrape lists the items in the order they were created.
nonCrawlVars == <<media, media_copy, ledgerVars, startupVars, dlVars, connVars, hashVars>>

\* offset += 50
PageStep == 50
\* AsyncLimiter(4, 1)
MaxRate == 4

\* "x" in url.parts
HasPart(url, x) == \E k \in 1..Len(url) : url[k] = x

\* [x for x in scrape_item.url.parts if x not in ("thumbnail", "/")], joined
\* behind the host again
WithoutThumbnail(url) ==
    <<"/">> \o SelectSeq(url, LAMBDA x : x \notin {"thumbnail", "/"})

\* the handler fetch() sends an item to
Route(url) ==
    IF HasPart(url, "thumbnails") THEN "handle_direct_link"
    ELSE IF HasPart(url, "post") THEN "post"
    ELSE IF HasPart(url, "onlyfans") \/ HasPart(url, "fansly") THEN "profile"
    ELSE IF HasPart(url, "favorites") THEN "favorites"
    ELSE "handle_direct_link"

\* a scrape item as create_scrape_item makes it, and the task that runs it
NewItem(url, parent) ==
    [url |-> url, parent |-> parent, pc |-> "start", offset |-> 0,
     resp |-> <<>>, n |-> 0, err |-> "", caught |-> 0]

\* error_handling_wrapper: the exception is caught and logged, the wrapped
\* call returns
Caught(item, e) == [item EXCEPT !.pc = "returned", !.err = e]

\* self.primary_base_domain / ("data" + file_obj['path'])
FileUrl(file_obj) == <<"/", "data", file_obj>>

\* the posts of the listings
PostPlain     == [file |-> "f1", attachments |-> <<>>, ad |-> FALSE, published |-> TRUE]
PostRich      == [file |-> "f2", attachments |-> <<"a1">>, ad |-> FALSE, published |-> TRUE]
PostBare      == [file |-> NULL, attachments |-> <<>>, ad |-> FALSE, published |-> TRUE]
PostAd        == [file |-> "f3", attachments |-> <<>>, ad |-> TRUE, published |-> TRUE]
\* neither "published" nor "added": date is None and date.replace raises
PostUndated   == [file |-> "f4", attachments |-> <<>>, ad |-> FALSE, published |-> FALSE]

ListingPages ==
    {<<>>, <<PostPlain>>, <<PostRich, PostBare>>, <<PostUndated, PostPlain>>,
     <<PostAd, PostPlain>>}

\* the listings of posts that all have a date
DatedPages == {p \in ListingPages : \A k \in 1..Len(p) : p[k].published}
Sites == UNION {[1..n -> DatedPages] : n \in 0..MaxPages}

\* the page the API answers for ?o=offset
Served(listing, offset) ==
    LET k == (offset \div PageStep) + 1
    IN IF k <= Len(listing) THEN listing[k] ELSE <<>>

\* the links handle_post_content makes child items of, in order
PostLinks(post) ==
    (IF post.file # NULL THEN <<FileUrl(post.file)>> ELSE <<>>)
        \o [k \in 1..Len(post.attachments) |-> FileUrl(post.attachments[k])]

\* a variant of handle_post_content: without its error_handling_wrapper, so
\* that the exception leaves the call
HandlePostContentUnwrapped(cfg, p) ==
    IF p.ad /\ cfg.ignore_coomer_ads
    THEN [links |-> <<>>, caught |-> "", raised |-> ""]
    ELSE IF ~p.published
    THEN [links |-> <<>>, caught |-> "", raised |-> "AttributeError"]
    ELSE [links |-> PostLinks(p), caught |-> "", raised |-> ""]

\* handle_post_content under its error_handling_wrapper: the children it
\* spawns, the exception the wrapper caught and logged, and the exception
\* that leaves the call (none: the wrapper returns)
HandlePostContent(cfg, p) ==
    IF p.ad /\ cfg.ignore_coomer_ads
    THEN [links |-> <<>>, caught |-> "", raised |-> ""]
    ELSE IF ~p.published
    THEN [links |-> <<>>, caught |-> "AttributeError", raised |-> ""]
    ELSE [links |-> PostLinks(p), caught |-> "", raised |-> ""]

\* the record of a request: who issued it, for what, with which cookie
Request(i, doc, offset) ==
    [item |-> i, doc |-> doc, offset |-> offset, session |-> cookies]

\* a variant of the step: offset += 1
NextOffsetByOne(offset) == offset + 1

\* the next offset of the listing
NextOffset(offset) == offset + PageStep

\* async with self.request_limiter: the task goes on when the limiter has
\* room in its window
Acquire == tokens < MaxRate /\ tokens' = tokens + 1

\* the limiter's time period elapses
Window ==
    /\ tokens > 0
    /\ tokens' = 0
    /\ UNCHANGED <<site, config, cookies, scrape, fetched>>

\* fetch(): the item is sent to its handler
fetch(i) ==
    /\ scrape[i].pc = "start"
    /\ scrape' = [scrape EXCEPT
          ![i].pc = Route(scrape[i].url),
          ![i].url = IF HasPart(@, "thumbnails") THEN WithoutThumbnail(@) ELSE @]
    /\ UNCHANGED <<site, config, cookies, tokens, fetched>>

\* handle_direct_link: the link goes to the file-handling step; fetch() returns
handle_direct_link(i) ==
    /\ scrape[i].pc = "handle_direct_link"
    /\ scrape' = [scrape EXCEPT ![i].pc = "returned"]
    /\ UNCHANGED <<site, config, cookies, tokens, fetched>>

\* profile(): offset = 0, then get_user_str_from_profile: its limiter is
\* entered and get_BS4 is called
profile(i) ==
    /\ scrape[i].pc = "profile"
    /\ Acquire
    /\ fetched' = Append(fetched, Request(i, "profile_user", 0))
    /\ scrape' = [scrape EXCEPT ![i].pc = "profile_user", ![i].offset = 0]
    /\ UNCHANGED <<site, config, cookies>>

\* get_user_str_from_profile: get_BS4 returns and the user name is read, or
\* it raises; a failure is caught by the wrapper of profile()
get_user_str_from_profile(i) ==
    /\ scrape[i].pc = "profile_user"
    /\ \E ok \in BOOLEAN :
          scrape' = [scrape EXCEPT ![i] =
              IF ok THEN [@ EXCEPT !.pc = "profile_limiter"]
              ELSE Caught(@, "ScrapeFailure")]
    /\ UNCHANGED <<site, config, cookies, tokens, fetched>>

\* profile(): async with self.request_limiter, at the head of the loop, and
\* the call of get_json for the page at offset
profile_limiter(i) ==
    /\ scrape[i].pc = "profile_limiter"
    /\ Acquire
    /\ fetched' = Append(fetched, Request(i, "page", scrape[i].offset))
    /\ scrape' = [scrape EXCEPT ![i].pc = "profile_page"]
    /\ UNCHANGED <<site, config, cookies>>

\* profile(): get_json returns the page, offset += 50, break on an empty
\* page; a failure is caught by the wrapper of profile()
profile_page(i) ==
    /\ scrape[i].pc = "profile_page"
    /\ \E ok \in BOOLEAN :
          scrape' = [scrape EXCEPT ![i] =
              IF ~ok THEN Caught(@, "ScrapeFailure")
              ELSE LET JSON_Resp == Served(site, @.offset)
                   IN [@ EXCEPT !.offset = NextOffset(@),
                                !.resp = JSON_Resp,
                                !.n = 1,
                                !.pc = IF JSON_Resp = <<>> THEN "returned"
                                       ELSE "profile_posts"]]
    /\ UNCHANGED <<site, config, cookies, tokens, fetched>>

\* profile(): handle_post_content of the next post of the page; its
\* children are created as tasks of the task group; an exception that
\* leaves the call ends the loop in the wrapper of profile()
profile_posts(i) ==
    /\ scrape[i].pc = "profile_posts"
    /\ LET done == HandlePostContent(config, scrape[i].resp[scrape[i].n])
       IN scrape' =
            IF done.raised # ""
            THEN [scrape EXCEPT ![i] = Caught(@, done.raised)]
            ELSE [scrape EXCEPT
                    ![i].n = @ + 1,
                    ![i].caught = @ + (IF done.caught = "" THEN 0 ELSE 1),
                    ![i].pc = IF scrape[i].n = Len(scrape[i].resp)
                              THEN "profile_limiter" ELSE "profile_posts"]
                 \o [k \in 1..Len(done.links) |-> NewItem(done.links[k], i)]
    /\ UNCHANGED <<site, config, cookies, tokens, fetched>>

\* a variant of the test: the session is never taken as missing
SessionUnchecked(cfg) == FALSE

\* not authentication_data['Coomer']['session']
NoSession(cfg) == cfg.session = ""

\* what the favourites API may answer
Favourites ==
    {<<>>, <<[service |-> "onlyfans", id |-> "u1"]>>,
     <<[service |-> "fansly", id |-> "u2"], [service |-> "onlyfans", id |-> "u1"]>>}

\* self.primary_base_domain / service / "user" / id
UserUrl(user) == <<"/", user.service, "user", user.id>>

\* favorites(): without a session the ScrapeFailure(401) is raised at once;
\* with one, the limiter is entered, the session cookie is put on the shared
\* client and the request for the favourites is issued
favorites(i) ==
    /\ scrape[i].pc = "favorites"
    /\ IF NoSession(config)
       THEN /\ scrape' = [scrape EXCEPT ![i] = Caught(@, "ScrapeFailure 401")]
            /\ UNCHANGED <<cookies, tokens, fetched>>
       ELSE /\ Acquire
            /\ cookies' = config.session
            /\ fetched' = Append(fetched, [item |-> i, doc |-> "favorites",
                                           offset |-> 0, session |-> cookies'])
            /\ scrape' = [scrape EXCEPT ![i].pc = "favorites_json"]
    /\ UNCHANGED <<site, config>>

\* favorites(): get_json returns and the cookie is set to "" and a child is
\* spawned per user, or get_json raises and the wrapper catches
favorites_json(i) ==
    /\ scrape[i].pc = "favorites_json"
    /\ \/ \E JSON_Resp \in Favourites :
             /\ cookies' = ""
             /\ scrape' = [scrape EXCEPT ![i].pc = "returned"]
                   \o [k \in 1..Len(JSON_Resp) |-> NewItem(UserUrl(JSON_Resp[k]), i)]
       \/ /\ cookies' = cookies
          /\ scrape' = [scrape EXCEPT ![i] = Caught(@, "ScrapeFailure")]
    /\ UNCHANGED <<site, config, tokens, fetched>>

\* what the post API may answer
Posts == {PostPlain, PostRich, PostBare, PostAd, PostUndated}

\* post(): get_service_user_and_post, then get_user_str_from_post: its
\* limiter is entered and get_BS4 is called
post(i) ==
    /\ scrape[i].pc = "post"
    /\ Acquire
    /\ fetched' = Append(fetched, Request(i, "post_user", 0))
    /\ scrape' = [scrape EXCEPT ![i].pc = "post_user"]
    /\ UNCHANGED <<site, config, cookies>>

\* get_user_str_from_post: get_BS4 returns and the user name is read, or it
\* raises; a failure is caught by the wrapper of post()
get_user_str_from_post(i) ==
    /\ scrape[i].pc = "post_user"
    /\ \E ok \in BOOLEAN :
          scrape' = [scrape EXCEPT ![i] =
              IF ok THEN [@ EXCEPT !.pc = "post_limiter"]
              ELSE Caught(@, "ScrapeFailure")]
    /\ UNCHANGED <<site, config, cookies, tokens, fetched>>

\* a variant of the step: get_json outside the limiter
post_unlimited(i) ==
    /\ scrape[i].pc = "post_limiter"
    /\ fetched' = Append(fetched, Request(i, "post", 0))
    /\ scrape' = [scrape EXCEPT ![i].pc = "post_json"]
    /\ UNCHANGED <<site, config, cookies, tokens>>

\* post(): async with self.request_limiter and the call of get_json
post_limiter(i) ==
    /\ scrape[i].pc = "post_limiter"
    /\ Acquire
    /\ fetched' = Append(fetched, Request(i, "post", 0))
    /\ scrape' = [scrape EXCEPT ![i].pc = "post_json"]
    /\ UNCHANGED <<site, config, cookies>>

\* post(): get_json returns the post, then handle_post_content; a failed
\* request is caught by the wrapper of post(), an error in the content by
\* the wrapper of handle_post_content
post_json(i) ==
    /\ scrape[i].pc = "post_json"
    /\ \/ scrape' = [scrape EXCEPT ![i] = Caught(@, "ScrapeFailure")]
       \/ \E p \in Posts :
             LET done == HandlePostContent(config, p)
             IN scrape' =
                  IF done.raised # ""
                  THEN [scrape EXCEPT ![i] = Caught(@, done.raised)]
                  ELSE [scrape EXCEPT
                          ![i].pc = "returned",
                          ![i].caught = @ + (IF done.caught = "" THEN 0 ELSE 1)]
                       \o [k \in 1..Len(done.links) |-> NewItem(done.links[k], i)]
    /\ UNCHANGED <<site, config, cookies, tokens, fetched>>

\* ---- a profile is scraped: its listing is any of Sites
ProfileUrl == <<"/", "onlyfans", "user", "u1">>

NoLedger == LedgerInit /\ StartupIdle /\ DownloadIdle /\ ConnIdle /\ HashIdle

InitProfile ==
    /\ NoLedger
    /\ site \in Sites
    /\ config \in [session : {""}, ignore_coomer_ads : BOOLEAN]
    /\ cookies = "" /\ tokens = 0 /\ fetched = <<>>
    /\ scrape = <<NewItem(ProfileUrl, 0)>>

NextProfile ==
    \/ fetch(1) /\ UNCHANGED nonCrawlVars
    \/ profile(1) /\ UNCHANGED nonCrawlVars
    \/ get_user_str_from_profile(1) /\ UNCHANGED nonCrawlVars
    \/ profile_limiter(1) /\ UNCHANGED nonCrawlVars
    \/ profile_page(1) /\ UNCHANGED nonCrawlVars
    \/ profile_posts(1) /\ UNCHANGED nonCrawlVars
    \/ Window /\ UNCHANGED nonCrawlVars

SpecProfile == InitProfile /\ [][NextProfile]_vars

\* ---- profile(): C13
\* the offsets of the listing pages item i requested, in order
PageOffsets(i) ==
    LET reqs == SelectSeq(fetched, LAMBDA r : r.item = i /\ r.doc = "page")
    IN [k \in 1..Len(reqs) |-> reqs[k].offset]

\* the number of the first empty page of a listing
FirstEmpty(listing) ==
    CHOOSE k \in 1..(Len(listing) + 1) :
        /\ Served(listing, (k - 1) * PageStep) = <<>>
        /\ \A j \in 1..(k - 1) : Served(listing, (j - 1) * PageStep) # <<>>

\* the posts of the pages before the first empty one, in order
RECURSIVE PostsUpTo(_, _)
PostsUpTo(listing, k) ==
    IF k = 0 THEN <<>> ELSE PostsUpTo(listing, k - 1) \o listing[k]

ListedPosts == PostsUpTo(site, FirstEmpty(site) - 1)

\* the files of a post that become child items: its file, if it has one,
\* and its attachments; none for an ad under ignore_coomer_ads
FilesOf(p) ==
    IF p.ad /\ config.ignore_coomer_ads THEN 0
    ELSE (IF p.file # NULL THEN 1 ELSE 0) + Len(p.attachments)

RECURSIVE FilesUpTo(_, _)
FilesUpTo(posts, k) ==
    IF k = 0 THEN 0 ELSE FilesUpTo(posts, k - 1) + FilesOf(posts[k])

\* the children item i has spawned
ChildrenOf(i) == {j \in 1..Len(scrape) : scrape[j].parent = i}

\* profile() of item i has returned and none of its requests failed
Listed(i) == scrape[i].pc = "returned" /\ scrape[i].err = ""

\* the pages are requested at 0, 50, 100, ... and none after the first
\* empty one
InOrder(i) ==
    /\ \A k \in 1..Len(PageOffsets(i)) : PageOffsets(i)[k] = (k - 1) * PageStep
    /\ Len(PageOffsets(i)) <= FirstEmpty(site)

FavoritesUrl == <<"/", "favorites">>
PostUrl == <<"/", "onlyfans", "user", "u1", "post", "p1">>

InitFavorites ==
    /\ NoLedger
    /\ site = <<>>
    /\ config \in [session : {"", "s"}, ignore_coomer_ads : {TRUE}]
    /\ cookies = "" /\ tokens = 0 /\ fetched = <<>>
    /\ scrape = <<NewItem(FavoritesUrl, 0), NewItem(PostUrl, 0)>>

\* the two items and the profiles spawned for the favourites; the files of
\* the post are spawned, not run
Crawling == {i \in DOMAIN scrape : Route(scrape[i].url) # "handle_direct_link"}

NextFavorites ==
    \/ \E i \in Crawling : fetch(i) /\ UNCHANGED nonCrawlVars
    \/ \E i \in Crawling : favorites(i) /\ UNCHANGED nonCrawlVars
    \/ \E i \in Crawling : favorites_json(i) /\ UNCHANGED nonCrawlVars
    \/ \E i \in Crawling : post(i) /\ UNCHANGED nonCrawlVars
    \/ \E i \in Crawling : get_user_str_from_post(i) /\ UNCHANGED nonCrawlVars
    \/ \E i \in Crawling : post_limiter(i) /\ UNCHANGED nonCrawlVars
    \/ \E i \in Crawling : post_json(i) /\ UNCHANGED nonCrawlVars
    \/ \E i \in Crawling : profile(i) /\ UNCHANGED nonCrawlVars
    \/ \E i \in Crawling : get_user_str_from_profile(i) /\ UNCHANGED nonCrawlVars
    \/ \E i \in Crawling : profile_limiter(i) /\ UNCHANGED nonCrawlVars
    \/ \E i \in Crawling : profile_page(i) /\ UNCHANGED nonCrawlVars
    \/ Window /\ UNCHANGED nonCrawlVars

SpecFavorites == InitFavorites /\ [][NextFavorites]_vars

\* C14: without a session credential favorites() ends at once with the
\* failure of status 401: it takes no token of the limiter, issues no
\* request, leaves the cookie of the shared client as it is and spawns no
\* child; and the item never issues a request or has a child
C14_AuthGating ==
    [][\A i \in DOMAIN scrape :
          (favorites(i) /\ config.session = "") =>
             /\ scrape'[i].pc = "returned"
             /\ scrape'[i].err = "ScrapeFailure 401"
             /\ tokens' = tokens
             /\ fetched' = fetched
             /\ cookies' = cookies
             /\ Len(scrape') = Len(scrape)
             /\ ChildrenOf(i) = {}
             /\ \A k \in 1..Len(fetched) : fetched[k].item # i
      ]_vars

\* C14 witness: favorites() has ended with the 401 while the other item
\* held a token and had issued a request
C14_Witness ==
    /\ config.session = ""
    /\ scrape[1].pc = "returned" /\ scrape[1].err = "ScrapeFailure 401"
    /\ tokens > 0 /\ fetched # <<>> /\ cookies = ""
    /\ ChildrenOf(1) = {}

\* C15: whenever favorites() has ended, with or without a failure, the
\* session cookie of the shared client is empty, and no request of another
\* item carries the session
C15_CredentialScope ==
    /\ scrape[1].pc = "returned" => cookies = ""
    /\ \A k \in 1..Len(fetched) : fetched[k].item # 1 => fetched[k].session = ""

\* ---- a profile, a post and the favourites, without a session, scraped side
\* by side, their children run: C16
\* listings with a post whose handling raises
FaultyPages == {<<PostUndated, PostPlain>>, <<PostRich, PostBare>>}

InitCrawl ==
    /\ NoLedger
    /\ site \in {<<>>} \cup {<<p>> : p \in FaultyPages}
    /\ config = [session |-> "", ignore_coomer_ads |-> TRUE]
    /\ cookies = "" /\ tokens = 0 /\ fetched = <<>>
    /\ scrape = <<NewItem(ProfileUrl, 0), NewItem(PostUrl, 0), NewItem(FavoritesUrl, 0)>>

NextCrawl ==
    \/ \E i \in DOMAIN scrape : fetch(i) /\ UNCHANGED nonCrawlVars
    \/ \E i \in DOMAIN scrape : handle_direct_link(i) /\ UNCHANGED nonCrawlVars
    \/ \E i \in DOMAIN scrape : favorites(i) /\ UNCHANGED nonCrawlVars
    \/ \E i \in DOMAIN scrape : post(i) /\ UNCHANGED nonCrawlVars
    \/ \E i \in DOMAIN scrape : get_user_str_from_post(i) /\ UNCHANGED nonCrawlVars
    \/ \E i \in DOMAIN scrape : post_limiter(i) /\ UNCHANGED nonCrawlVars
    \/ \E i \in DOMAIN scrape : post_json(i) /\ UNCHANGED nonCrawlVars
    \/ \E i \in DOMAIN scrape : profile(i) /\ UNCHANGED nonCrawlVars
    \/ \E i \in DOMAIN scrape : get_user_str_from_profile(i) /\ UNCHANGED nonCrawlVars
    \/ \E i \in DOMAIN scrape : profile_limiter(i) /\ UNCHANGED nonCrawlVars
    \/ \E i \in DOMAIN scrape : profile_page(i) /\ UNCHANGED nonCrawlVars
    \/ \E i \in DOMAIN scrape : profile_posts(i) /\ UNCHANGED nonCrawlVars
    \/ Window /\ UNCHANGED nonCrawlVars

\* the event loop runs every task that can go on
SpecCrawl == InitCrawl /\ [][NextCrawl]_vars /\ WF_vars(NextCrawl)

\* an exception was caught in the work of item i at this step: the one that
\* ended its handler, or one in the content of a post
FailedAt(i) ==
    \/ scrape[i].err = "" /\ scrape'[i].err # ""
    \/ scrape'[i].caught > scrape[i].caught

\* the children of the posts that handle_post_content can handle
RECURSIVE HandledUpTo(_, _)
HandledUpTo(posts, k) ==
    IF k = 0 THEN 0
    ELSE HandledUpTo(posts, k - 1)
            + (IF posts[k].published THEN FilesOf(posts[k]) ELSE 0)

\* every task of the run has returned
AllReturned == \A i \in DOMAIN scrape : scrape[i].pc = "returned"

LimiterRoots == <<NewItem(ProfileUrl, 0), NewItem(PostUrl, 0), NewItem(FavoritesUrl, 0)>>

InitLimiter ==
    /\ NoLedger
    /\ site \in {<<>>, <<(<<PostPlain>>)>>}
    /\ config = [session |-> "s", ignore_coomer_ads |-> TRUE]
    /\ cookies = "" /\ tokens = 0 /\ fetched = <<>>
    /\ scrape = LimiterRoots

NextLimiter ==
    \/ \E i \in DOMAIN LimiterRoots : fetch(i) /\ UNCHANGED nonCrawlVars
    \/ \E i \in DOMAIN LimiterRoots : favorites(i) /\ UNCHANGED nonCrawlVars
    \/ \E i \in DOMAIN LimiterRoots : favorites_json(i) /\ UNCHANGED nonCrawlVars
    \/ \E i \in DOMAIN LimiterRoots : post(i) /\ UNCHANGED nonCrawlVars
    \/ \E i \in DOMAIN LimiterRoots : get_user_str_from_post(i) /\ UNCHANGED nonCrawlVars
    \/ \E i \in DOMAIN LimiterRoots : post_limiter(i) /\ UNCHANGED nonCrawlVars
    \/ \E i \in DOMAIN LimiterRoots : post_json(i) /\ UNCHANGED nonCrawlVars
    \/ \E i \in DOMAIN LimiterRoots : profile(i) /\ UNCHANGED nonCrawlVars
    \/ \E i \in DOMAIN LimiterRoots : get_user_str_from_profile(i) /\ UNCHANGED nonCrawlVars
    \/ \E i \in DOMAIN LimiterRoots : profile_limiter(i) /\ UNCHANGED nonCrawlVars
    \/ \E i \in DOMAIN LimiterRoots : profile_page(i) /\ UNCHANGED nonCrawlVars
    \/ \E i \in DOMAIN LimiterRoots : profile_posts(i) /\ UNCHANGED nonCrawlVars
    \/ Window /\ UNCHANGED nonCrawlVars

\* the event loop runs every task that can go on
SpecLimiter == InitLimiter /\ [][NextLimiter]_vars /\ WF_vars(NextLimiter)

\* the task stands before one of the crawler's limiter blocks
AtLimiter(i) == scrape[i].pc \in {"profile", "profile_limiter", "post", "post_limiter"}

\* C17: every fetch of the crawler (favorites JSON, profile page, post JSON,
\* user-name document) is issued in the step that took a token of the
\* request limiter, by a task that stood before that limiter block and that
\* goes on without an error; no window hands out more than MaxRate tokens,
\* so no window sees more than MaxRate fetches start; and every task held by
\* the limiter gets its token in the end
C17_RateLimit ==
    /\ [][fetched' # fetched =>
            /\ tokens < MaxRate /\ tokens' = tokens + 1
            /\ Len(fetched') = Len(fetched) + 1
            /\ LET i == fetched'[Len(fetched')].item
               IN scrape[i].pc \in {"profile", "profile_limiter", "post",
                                     "post_limiter", "favorites"}
                  /\ scrape'[i].err = ""]_vars
    /\ [][\A i \in DOMAIN scrape :
            AtLimiter(i) /\ scrape'[i] # scrape[i] =>
                /\ fetched' # fetched
                /\ fetched'[Len(fetched')].item = i]_vars
    /\ [](tokens \in 0..MaxRate)
    /\ <>[](\A i \in DOMAIN LimiterRoots : ~AtLimiter(i))

\* fetches were issued in an earlier window, the present window has handed
\* out all its tokens, and a task is held before its limiter block
C17_Witness ==
    /\ Len(fetched) > MaxRate
    /\ tokens = MaxRate
    /\ \E i \in DOMAIN scrape : AtLimiter(i)

(***************************************************************************)
(* C18: add_filesize and a file that is gone                               *)
(***************************************************************************)

\* C18: add_filesize of an item whose file is gone returns to its caller
\* without raising and leaves the ledger as it was; add_filesize of an item
\* whose file is there leaves its byte size in the matching record
C18_FilesizeNonFatal ==
    [][last'.op = "add_filesize" =>
        LET m == last'.arg IN
        IF m.complete_file = NULLINT
        THEN ret' = "None" /\ media' = media
        ELSE /\ ret' = "None"
             /\ \A r \in Matching(media', last'.key[1], last'.key[2]) :
                    r.file_size = m.complete_file]_vars

\* add_filesize was called for a recorded item whose file is gone
C18_Witness ==
    /\ last.op = "add_filesize"
    /\ last.arg.complete_file = NULLINT
    /\ Matching(media, last.key[1], last.key[2]) # {}

(***************************************************************************)
(* The ledger calls statement by statement: every awaited execute() and    *)
(* every awaited commit() of a call is a point where the event loop may    *)
(* run another task on the shared connection.                              *)
(***************************************************************************)

\* the number of calls in flight on the connection
MaxCalls == 2

\* the table check_complete(domain, url, referer) leaves
CheckComplete(t, domain0, url, referer) ==
    LET key == LookupKey(domain0, url) IN
    IF \E r \in Matching(t, key[1], key[2]) : r.completed # 0 /\ UrlStr(referer) # r.referer
    THEN UpdateReferer(t, UrlStr(referer), key[1], key[2])
    ELSE t

\* the calls tasks make on the ledger
LedgerCalls ==
    [op : {"insert_incompleted", "mark_complete", "set_album_id", "add_filesize"},
     domain : LedgerDomains, arg : LedgerItems]
    \cup [op : {"check_complete"}, domain : LedgerDomains,
          arg : [url : LedgerUrls, referer : LedgerReferers]]

\* a call before its first statement
NewCall(c) ==
    [op |-> c.op, domain |-> c.domain, arg |-> c.arg, ret |-> "",
     pc |-> IF c.op = "check_complete" THEN "select" ELSE "update"]

\* the table a call leaves when nothing else runs between its statements
Whole(t, c) ==
    CASE c.op = "insert_incompleted" -> InsertIncompleted(t, c.domain, c.arg, now)
      [] c.op = "mark_complete"      -> MarkComplete(t, c.domain, c.arg, now)
      [] c.op = "set_album_id"       -> SetAlbumId(t, c.domain, c.arg)
      [] c.op = "add_filesize"       -> IF c.arg.complete_file = NULLINT THEN t
                                        ELSE AddFilesize(t, c.domain, c.arg)
      [] c.op = "check_complete"     -> CheckComplete(t, c.domain, c.arg.url, c.arg.referer)

\* the tables the calls cs[k], k \in S, leave when they run one after the
\* other on t, in any order
RECURSIVE Serial(_, _, _)
Serial(t, cs, S) ==
    IF S = {} THEN {t}
    ELSE UNION {Serial(Whole(t, cs[k]), cs, S \ {k}) : k \in S}

\* ledgers the calls start on: the new table; a placeholder record beside
\* the record of its url_path; the same with that record completed
Fresh     == create_history(NoTable)
Placeheld == InsertIncompleted(InsertIncompleted(Fresh, "no_crawler", Item1, 0),
                               "jpg.church", Item2, 0)
Finished  == MarkComplete(Placeheld, "jpg.church", Item2, 0)

connRest == <<media_copy, ignore_history, now, ret, last, marked,
              startupVars, dlVars, crawlVars, start, hashVars>>

\* the call's arguments as the method computes them
CallDomain(c)  == get_db_domain(c.domain)
CallPath(c)    == get_db_path(c.arg.url, UrlStr(c.arg.referer))

\* insert_incompleted: the UPDATE of the placeholder record, which may raise
insert_incompleted_update(k) ==
    LET c == calls[k]
        raises == UpdatePlaceholderRaises(media, CallDomain(c), c.arg.album_id,
                                          CallPath(c), UrlStr(c.arg.referer)) IN
    /\ c.op = "insert_incompleted" /\ c.pc = "update"
    /\ media' = IF raises THEN media
                ELSE [media EXCEPT !.rows =
                        UpdatePlaceholderRows(media, CallDomain(c), c.arg.album_id,
                                              CallPath(c), UrlStr(c.arg.referer))]
    /\ calls' = [calls EXCEPT ![k].pc = IF raises THEN "delete" ELSE "insert"]
    /\ UNCHANGED <<committed, connRest>>

\* insert_incompleted: except IntegrityError, the DELETE
insert_incompleted_delete(k) ==
    LET c == calls[k] IN
    /\ c.op = "insert_incompleted" /\ c.pc = "delete"
    /\ media' = [media EXCEPT !.rows = DeletePlaceholderRows(media, CallPath(c))]
    /\ calls' = [calls EXCEPT ![k].pc = "insert"]
    /\ UNCHANGED <<committed, connRest>>

\* insert_incompleted: the INSERT OR IGNORE
insert_incompleted_insert(k) ==
    LET c == calls[k] IN
    /\ c.op = "insert_incompleted" /\ c.pc = "insert"
    /\ media' = InsertOrIgnore(media, CallDomain(c), CallPath(c), c.arg,
                               DownloadFilename(c.arg), now)
    /\ calls' = [calls EXCEPT ![k].pc = "filename"]
    /\ UNCHANGED <<committed, connRest>>

\* insert_incompleted: the UPDATE of download_filename
insert_incompleted_filename(k) ==
    LET c == calls[k] IN
    /\ c.op = "insert_incompleted" /\ c.pc = "filename"
    /\ media' = UpdateDownloadFilename(media, DownloadFilename(c.arg),
                                       CallDomain(c), CallPath(c))
    /\ calls' = [calls EXCEPT ![k].pc = "commit"]
    /\ UNCHANGED <<committed, connRest>>

\* mark_complete: the UPDATE
mark_complete_update(k) ==
    LET c == calls[k] IN
    /\ c.op = "mark_complete" /\ c.pc = "update"
    /\ media' = MarkComplete(media, c.domain, c.arg, now)
    /\ calls' = [calls EXCEPT ![k].pc = "commit"]
    /\ UNCHANGED <<committed, connRest>>

\* set_album_id: the UPDATE
set_album_id_update(k) ==
    LET c == calls[k] IN
    /\ c.op = "set_album_id" /\ c.pc = "update"
    /\ media' = SetAlbumId(media, c.domain, c.arg)
    /\ calls' = [calls EXCEPT ![k].pc = "commit"]
    /\ UNCHANGED <<committed, connRest>>

\* add_filesize: stat(), which raises when the file is gone, and the UPDATE
add_filesize_update(k) ==
    LET c == calls[k]
        gone == c.arg.complete_file = NULLINT IN
    /\ c.op = "add_filesize" /\ c.pc = "update"
    /\ media' = IF gone THEN media ELSE AddFilesize(media, c.domain, c.arg)
    /\ calls' = [calls EXCEPT ![k].pc = IF gone THEN "done" ELSE "commit",
                              ![k].ret = IF gone THEN "FileNotFoundError" ELSE ""]
    /\ UNCHANGED <<committed, connRest>>

\* check_complete: the SELECT and fetchone(); the call returns here unless
\* the record is complete under another referer
check_complete_select(k) ==
    LET c == calls[k]
        key == LookupKey(c.domain, c.arg.url) IN
    /\ c.op = "check_complete" /\ c.pc = "select"
    /\ ~ignore_history
    /\ \E sql_file_check \in
              IF Matching(media, key[1], key[2]) = {} THEN {{}}
              ELSE {{r} : r \in Matching(media, key[1], key[2])} :
         LET complete == \E r \in sql_file_check : r.completed # 0
             drift    == \E r \in sql_file_check : UrlStr(c.arg.referer) # r.referer IN
         calls' = [calls EXCEPT
                     ![k].pc = IF complete /\ drift THEN "referer" ELSE "done",
                     ![k].ret = IF complete /\ drift THEN ""
                                ELSE IF complete THEN "True" ELSE "False"]
    /\ UNCHANGED <<media, committed, connRest>>

\* check_complete: the UPDATE of the referer
check_complete_update(k) ==
    LET c == calls[k]
        key == LookupKey(c.domain, c.arg.url) IN
    /\ c.op = "check_complete" /\ c.pc = "referer"
    /\ media' = UpdateReferer(media, UrlStr(c.arg.referer), key[1], key[2])
    /\ calls' = [calls EXCEPT ![k].pc = "commit"]
    /\ UNCHANGED <<committed, connRest>>

\* await self.db_conn.commit(): the connection's transaction, with every
\* statement executed on it since the last commit, becomes durable
commit(k) ==
    LET c == calls[k] IN
    /\ c.pc = "commit"
    /\ committed' = media
    /\ calls' = [calls EXCEPT ![k].pc = "done",
                              ![k].ret = IF c.op = "check_complete" THEN "True"
                                         ELSE "None"]
    /\ UNCHANGED <<media, connRest>>

InitConn ==
    /\ media \in {Fresh, Placeheld, Finished}
    /\ media_copy = NoTable /\ ignore_history = FALSE /\ now = 0
    /\ ret = "None" /\ last = NoCall /\ marked = NoMark
    /\ StartupIdle /\ DownloadIdle /\ CrawlIdle /\ HashIdle
    /\ start = media /\ committed = media
    /\ calls \in [1..MaxCalls -> {NewCall(c) : c \in LedgerCalls}]

NextConn ==
    \/ \E k \in DOMAIN calls : insert_incompleted_update(k)
    \/ \E k \in DOMAIN calls : insert_incompleted_delete(k)
    \/ \E k \in DOMAIN calls : insert_incompleted_insert(k)
    \/ \E k \in DOMAIN calls : insert_incompleted_filename(k)
    \/ \E k \in DOMAIN calls : mark_complete_update(k)
    \/ \E k \in DOMAIN calls : set_album_id_update(k)
    \/ \E k \in DOMAIN calls : add_filesize_update(k)
    \/ \E k \in DOMAIN calls : check_complete_select(k)
    \/ \E k \in DOMAIN calls : check_complete_update(k)
    \/ \E k \in DOMAIN calls : commit(k)

SpecConn == InitConn /\ [][NextConn]_vars

(***************************************************************************)
(* C19: the mutating calls on the shared connection                        *)
(***************************************************************************)

\* the call has executed a statement and has not returned
Underway(c) == c.pc \notin {"select", "update", "done"}

Returned == {k \in DOMAIN calls : calls[k].pc = "done"}

\* no statement and no commit of a call runs while another call is underway
NoInterleaving ==
    [][\A k \in DOMAIN calls :
          calls'[k] # calls[k] =>
              \A j \in DOMAIN calls \ {k} : ~Underway(calls[j])]_vars

\* once every call has returned, the ledger is what the calls leave when
\* they run one after the other in some order
SerialOutcome ==
    Returned = DOMAIN calls => media \in Serial(start, calls, DOMAIN calls)

\* what a commit made durable is what returned calls leave when they run
\* one after the other in some order: no part of a call that is underway
CommitsWhole ==
    committed \in UNION {Serial(start, calls, S) : S \in SUBSET Returned}

\* C19: the statements and the commit of one mutating call (insert_incompleted,
\* mark_complete, set_album_id, add_filesize, the referer update of
\* check_complete) never run between those of another call on the shared
\* connection, so the ledger ends as some sequential order of the calls
\* leaves it, and no commit makes a part of another call durable
C19_Serialized ==
    /\ NoInterleaving
    /\ [](SerialOutcome /\ CommitsWhole)

\* two calls have returned, and one of them committed while the other was
\* underway
C19_Witness ==
    /\ Returned = DOMAIN calls
    /\ \A k \in DOMAIN calls : calls[k].ret \in {"None", "True"}
    /\ media = committed
    /\ media \notin Serial(start, calls, DOMAIN calls)

(***************************************************************************)
(* C20: ignore_history                                                     *)
(***************************************************************************)

\* the owner of the table assigns HistoryTable.ignore_history
set_ignore_history(b) ==
    /\ ignore_history # b
    /\ ignore_history' = b
    /\ UNCHANGED <<media, media_copy, now, ret, last, marked>>

\* the ledger under any sequence of calls, ignore_history switched at any time
NextIgnore ==
    \/ Next
    \/ \E b \in BOOLEAN :
          /\ set_ignore_history(b)
          /\ UNCHANGED <<startupVars, dlVars, crawlVars, connVars, hashVars>>

SpecIgnore == Init /\ [][NextIgnore]_vars

\* C20: a check_complete made while ignore_history is set returns False,
\* whatever the domain, the url, the referer and the ledger, and leaves the
\* ledger as it was, the stored referers included
C20_IgnoreHistory ==
    [][ignore_history /\ ignore_history' /\ last'.op = "check_complete" =>
          ret' = "False" /\ media' = media]_vars

\* check_complete returned False for a key whose record is complete under
\* another referer than the call's: the call was made under ignore_history
C20_Witness ==
    /\ ignore_history
    /\ last.op = "check_complete"
    /\ last.own = "complete" /\ last.ref = "other_referer"
    /\ ret = "False"
    /\ OwnCase(media, last.key) = "complete"
    /\ RefCase(Matching(media, last.key[1], last.key[2]), UrlStr(last.arg.referer))
           = "other_referer"

(***************************************************************************)
(* HashManager.hash_file: the file is read chunk by chunk into a fresh     *)
(* hasher. The digest function stands for hashlib.blake2b: a state that    *)
(* absorbs the bytes in order, reduced to 8 bits.                          *)
(***************************************************************************)

\* CHUNK_SIZE, scaled down from 1024 * 1024
ChunkSize == 2
\* the longest file content
MaxBytes == 3

Bytes    == {0, 1}
Contents == UNION {[1..n -> Bytes] : n \in 0..MaxBytes}

\* os.getcwd()
Cwd == <<"/", "cwd">>

\* os.path.join(os.getcwd(), filename): an absolute filename stands alone
FilePath(filename) ==
    IF filename # <<>> /\ filename[1] = "/" THEN filename
    ELSE Cwd \o <<"/">> \o filename

Filenames == {<<"f">>, <<"/", "g">>}

\* self.hasher(): a new hasher
NewHasher == [state |-> 0]

\* a variant of update: the hasher starts again with every chunk
UpdateRestart(hasher, filedata) ==
    LET RECURSIVE Absorb(_, _)
        Absorb(h, data) ==
            IF data = <<>> THEN h
            ELSE Absorb((h * 33 + data[1] + 1) % 256, Tail(data))
    IN [state |-> Absorb(NewHasher.state, filedata)]

\* hasher.update(filedata): the bytes are absorbed in order
Update(hasher, filedata) ==
    LET RECURSIVE Absorb(_, _)
        Absorb(h, data) ==
            IF data = <<>> THEN h
            ELSE Absorb((h * 33 + data[1] + 1) % 256, Tail(data))
    IN [state |-> Absorb(hasher.state, filedata)]

HexDigits == <<"0", "1", "2", "3", "4", "5", "6", "7",
               "8", "9", "a", "b", "c", "d", "e", "f">>

\* hasher.hexdigest()
hexdigest(hasher) ==
    <<HexDigits[(hasher.state \div 16) + 1], HexDigits[(hasher.state % 16) + 1]>>

\* a call of hash_file(filename) before its first step
NewHash(filename) ==
    [filename |-> filename, file_path |-> FilePath(filename), pc |-> "open",
     pos |-> 0, filedata |-> <<>>, hasher |-> NewHasher, reads |-> 0,
     raised |-> "", digest |-> <<>>]

\* fp.read(CHUNK_SIZE) at position pos: the bytes a read may return, none
\* at the end of the file, else at least one and at most CHUNK_SIZE
ReadAt(bytes, pos) ==
    IF pos = Len(bytes) THEN {<<>>}
    ELSE {SubSeq(bytes, pos + 1, pos + n) :
            n \in 1..(IF Len(bytes) - pos < ChunkSize THEN Len(bytes) - pos
                      ELSE ChunkSize)}

\* aiofiles.open(file_path, "rb"): raises when there is no such file
hash_file_open(k) ==
    LET h == hashes[k] IN
    /\ h.pc = "open"
    /\ hashes' = [hashes EXCEPT ![k] =
          IF disk[h.file_path].exists THEN [h EXCEPT !.pc = "read"]
          ELSE [h EXCEPT !.pc = "done", !.raised = "FileNotFoundError"]]
    /\ UNCHANGED disk

\* filedata = await fp.read(CHUNK_SIZE); hasher = self.hasher()
hash_file_read(k) ==
    LET h == hashes[k] IN
    /\ h.pc = "read"
    /\ \E data \in ReadAt(disk[h.file_path].bytes, h.pos) :
          hashes' = [hashes EXCEPT ![k] =
              [h EXCEPT !.filedata = data, !.pos = h.pos + Len(data),
                        !.reads = IF data = <<>> THEN h.reads ELSE h.reads + 1,
                        !.hasher = NewHasher, !.pc = "loop"]]
    /\ UNCHANGED disk

\* while filedata: hasher.update(filedata); filedata = await fp.read(CHUNK_SIZE)
hash_file_update(k) ==
    LET h == hashes[k] IN
    /\ h.pc = "loop" /\ h.filedata # <<>>
    /\ \E data \in ReadAt(disk[h.file_path].bytes, h.pos) :
          hashes' = [hashes EXCEPT ![k] =
              [h EXCEPT !.hasher = Update(h.hasher, h.filedata),
                        !.filedata = data, !.pos = h.pos + Len(data),
                        !.reads = IF data = <<>> THEN h.reads ELSE h.reads + 1]]
    /\ UNCHANGED disk

\* return hasher.hexdigest()
hash_file_return(k) ==
    LET h == hashes[k] IN
    /\ h.pc = "loop" /\ h.filedata = <<>>
    /\ hashes' = [hashes EXCEPT ![k] =
          [h EXCEPT !.pc = "done", !.digest = hexdigest(h.hasher)]]
    /\ UNCHANGED disk

\* ---- two files of any content, or missing, hashed side by side
InitHash ==
    /\ LedgerInit /\ StartupIdle /\ DownloadIdle /\ CrawlIdle /\ ConnIdle
    /\ disk \in [{FilePath(f) : f \in Filenames} ->
                   {[exists |-> FALSE, bytes |-> <<>>]}
                   \cup {[exists |-> TRUE, bytes |-> b] : b \in Contents}]
    /\ hashes = <<NewHash(<<"f">>), NewHash(<<"/", "g">>)>>

hashRest == <<media, media_copy, ledgerVars, startupVars, dlVars, crawlVars, connVars>>

NextHash ==
    \/ \E k \in DOMAIN hashes : hash_file_open(k) /\ UNCHANGED hashRest
    \/ \E k \in DOMAIN hashes : hash_file_read(k) /\ UNCHANGED hashRest
    \/ \E k \in DOMAIN hashes : hash_file_update(k) /\ UNCHANGED hashRest
    \/ \E k \in DOMAIN hashes : hash_file_return(k) /\ UNCHANGED hashRest

SpecHash == InitHash /\ [][NextHash]_vars

(***************************************************************************)
(* C21: hash_file                                                          *)
(***************************************************************************)

\* the file a call hashes
FileOf(h) == disk[h.file_path]

\* C21: a returned hash_file gives the digest of the file's bytes absorbed
\* in one piece, however the reads split them, so two paths with the same
\* bytes get the same digest; hash_file of a path with no file raises
\* FileNotFoundError and never has a digest
C21_HashDeterminism ==
    /\ \A k \in DOMAIN hashes :
          LET h == hashes[k] IN
          IF FileOf(h).exists
          THEN /\ h.raised = ""
               /\ h.pc = "done" => h.digest = hexdigest(Update(NewHasher, FileOf(h).bytes))
          ELSE /\ h.digest = <<>>
               /\ h.pc = "done" => h.raised = "FileNotFoundError"
    /\ \A j, k \in DOMAIN hashes :
          (/\ hashes[j].pc = "done" /\ hashes[k].pc = "done"
           /\ FileOf(hashes[j]).exists /\ FileOf(hashes[k]).exists
           /\ FileOf(hashes[j]).bytes = FileOf(hashes[k]).bytes)
          => hashes[j].digest = hashes[k].digest /\ hashes[j].digest # <<>>

\* two paths with the same bytes, longer than a chunk, read in different
\* numbers of chunks, both hashed
C21_Witness ==
    /\ hashes[1].file_path # hashes[2].file_path
    /\ hashes[1].pc = "done" /\ hashes[2].pc = "done"
    /\ FileOf(hashes[1]).exists /\ FileOf(hashes[2]).exists
    /\ FileOf(hashes[1]).bytes = FileOf(hashes[2]).bytes
    /\ Len(FileOf(hashes[1]).bytes) > ChunkSize
    /\ hashes[1].reads # hashes[2].reads
    /\ hashes[1].digest = hashes[2].digest /\ hashes[1].digest # <<>>

\* a path with no file was hashed
C21_WitnessMissing ==
    \E k \in DOMAIN hashes :
        ~FileOf(hashes[k]).exists /\ hashes[k].pc = "done"

(***************************************************************************)
(* The keys of lookup and of write, for items of the sites get_db_path     *)
(* treats apart                                                            *)
(***************************************************************************)

\* an e-hentai image: the url_path is cut before its keystamp
PageEh == [host |-> <<"e-hentai">>, path |-> <<"/", "s", "/", "p">>]
FileEh == [host |-> <<"h">>, path |-> <<"/", "h", "/", "i", "/", "keystamp", "=1", "/", "x">>]
ItemEh == [url |-> FileEh, referer |-> PageEh, album_id |-> "1",
           download_folder |-> "dir", download_filename |-> "x",
           original_filename |-> "x", complete_file |-> 7]

\* a mediafire file: the url_path is the name of the URL
PageMf == [host |-> <<"mediafire">>, path |-> <<"/", "file", "/", "k">>]
FileMf == [host |-> <<"download">>, path |-> <<"/", "k", "/", "y">>]
ItemMf == [url |-> FileMf, referer |-> PageMf, album_id |-> "2",
           download_folder |-> "dir", download_filename |-> "y",
           original_filename |-> "y", complete_file |-> 7]

KeyItems   == {ItemEh, ItemMf}
KeyDomains == {"e-hentai", "mediafire", "no_crawler"}

\* insert_incompleted, mark_complete and check_complete of those items, under
\* the domain of their crawler or of another
NextKeys ==
    \/ \E d \in KeyDomains, m \in KeyItems :
          /\ insert_incompleted(d, m) /\ Wrote("insert_incompleted", d, m)
          /\ UNCHANGED <<marked, startupVars, dlVars, crawlVars, connVars, hashVars>>
    \/ \E d \in KeyDomains, m \in KeyItems :
          /\ mark_complete(d, m) /\ Wrote("mark_complete", d, m)
          /\ UNCHANGED <<marked, startupVars, dlVars, crawlVars, connVars, hashVars>>
    \/ \E d \in KeyDomains, m \in KeyItems :
          /\ check_complete(d, m.url, m.referer) /\ Checked(d, m.url, m.referer)
          /\ UNCHANGED <<marked, startupVars, dlVars, crawlVars, connVars, hashVars>>

SpecKeys == Init /\ [][NextKeys]_vars

(***************************************************************************)
(* C22: the key of lookup and the key of write                             *)
(***************************************************************************)

\* the domain names the site whose rule the item's referer triggers, or
\* neither does
Aligned(d, m) ==
    /\ In("e-hentai", DomainStr(get_db_domain(d))) <=> In("e-hentai", UrlStr(m.referer))
    /\ In("mediafire", DomainStr(get_db_domain(d))) <=> In("mediafire", UrlStr(m.referer))

\* when domain and referer name the same site, lookup and write use one key
AlignedKeysAgree ==
    \A d \in KeyDomains, m \in KeyItems :
        Aligned(d, m) => LookupKey(d, m.url) = ItemKey(d, m)

\* C22: check_complete(domain, item.url, item.referer) looks up the key under
\* which insert_incompleted and mark_complete of (domain, item) wrote, for
\* every domain and item, e-hentai and mediafire items included: a
\* check_complete that follows the mark_complete of a recorded item looks up
\* the key mark_complete wrote and returns True
C22_KeysAgree ==
    [][(/\ last.op = "mark_complete" /\ last.own # "absent"
        /\ last'.op = "check_complete"
        /\ last'.domain = last.domain
        /\ last'.arg = [url |-> last.arg.url, referer |-> last.arg.referer])
       => last'.key = last.key /\ ret' = "True"]_vars

\* an item recorded and marked complete under a domain that does not name
\* the site of its referer, then looked up
C22_Witness ==
    /\ last.op = "check_complete"
    /\ \E m \in KeyItems :
          /\ last.arg = [url |-> m.url, referer |-> m.referer]
          /\ ~Aligned(last.domain, m)
          /\ OwnCase(media, ItemKey(last.domain, m)) = "complete"
          /\ last.key # ItemKey(last.domain, m)

(***************************************************************************)
(* HistoryTable.check_filename_exists                                      *)
(***************************************************************************)

\* Python values with their types: the row fetchone() returns and an int
PyTuple(items) == [type |-> "tuple", items |-> items]
PyInt(n)       == [type |-> "int", items |-> <<n>>]

\* a == b in Python: values of different types are not equal
PyEq(a, b) == a.type = b.type /\ a.items = b.items

\* SELECT EXISTS(SELECT 1 FROM media WHERE download_filename = ?), fetchone()
SelectExists(t, filename) ==
    PyTuple(<<IF \E r \in t.rows : r.download_filename = filename THEN 1 ELSE 0>>)

\* return sql_file_check == 1
check_filename_exists(filename) ==
    /\ ret' = IF PyEq(SelectExists(media, filename), PyInt(1)) THEN "True" ELSE "False"
    /\ last' = [NoCall EXCEPT !.op = "check_filename_exists", !.key = <<filename>>]
    /\ UNCHANGED <<media, media_copy, ignore_history, now, marked>>

\* the filenames asked for: one an item is recorded with, the empty one of
\* an item without a name, one that no item has
AskedFilenames == {"x", "", "z"}

\* the ledger under any sequence of calls, check_filename_exists among them
NextFilename ==
    \/ Next
    \/ \E filename \in AskedFilenames :
          /\ check_filename_exists(filename)
          /\ UNCHANGED <<startupVars, dlVars, crawlVars, connVars, hashVars>>

SpecFilename == Init /\ [][NextFilename]_vars

(***************************************************************************)
(* C23: check_filename_exists                                              *)
(***************************************************************************)

\* C23: check_filename_exists(filename) returns True exactly when the ledger
\* holds a record whose download_filename is filename, False otherwise, and
\* leaves the ledger as it was
C23_FilenameExists ==
    [][last'.op = "check_filename_exists" =>
          /\ media' = media
          /\ ret' = "True" <=>
                \E r \in media.rows : r.download_filename = last'.key[1]]_vars

\* check_filename_exists was asked for a filename some record has
C23_Witness ==
    /\ last.op = "check_filename_exists"
    /\ \E r \in media.rows : r.download_filename = last.key[1]

================================================================
